---------------------------- MODULE Spec2Model ----------------------------
(***************************************************************************)
(* A model of the ChainCredit contribution-weighted skill scoring engine   *)
(* (JerrySanjuJoanes/chaincred).                                           *)
(*                                                                         *)
(* Numbers.  The program computes with Python floats.  Here every float is *)
(* an exact rational [n |-> numerator, d |-> denominator] with d > 0, and   *)
(* comparisons are made by cross-multiplication.  Python's round(x, k) is   *)
(* modelled on the exact value; on an exact decimal tie the float that     *)
(* stands for the value decides the direction, so both neighbours are      *)
(* possible outcomes and the caller picks one nondeterministically.        *)
(***************************************************************************)
EXTENDS Integers, Sequences, FiniteSets, TLC

VARIABLES
    \* --- ContributionWeightedScorer (contribution_scorer.py) ---
    score_data,      \* result of the last score_skill call, or NoValue
    repo_scores,     \* skill_repo_scores[skill]: the per-repository records
    aggregated,      \* result of the last aggregate_scores call, or NoValue
    \* --- analyze_repository (repos/analyzer.py) ---
    an_pc,           \* "traverse", "returned"
    contributors,    \* author name -> contributor record
    contributor_order, \* the dict's insertion order of the author names
    total_commits,
    total_commits_excluding_bots,
    total_lines_modified,
    bot_count,
    all_files,
    file_extensions, \* extension -> count
    warnings,        \* AnalysisWarnings.warnings, each kept as its kind
    assumptions,     \* AnalysisWarnings.assumptions
    languages,       \* analysis_data['languages']: language -> line count
    \* --- display_results (display.py) ---
    disp_pc,         \* "idle", "displayed", "raised"
    ranked,          \* contributors_with_scores after the sort
    validation_errors, \* authors whose scoring raised ValueError
    bot_report,      \* the automated-contributors section
    \* --- display_resume_results, the part for one repository ---
    resume_pc,       \* "idle", "no_match", "bot_skipped", "scored"
    matched_name,
    repo_contribution_pct, \* the contribution_pct handed to score_skill
    \* --- SkillScorer (scoring/skill_scorer.py) ---
    scorer_pc,       \* "none", "constructed", "evaluated"
    working_copy,    \* the tree at repo_path
    frameworks,      \* self.frameworks
    authorship_percentage, \* self.authorship_percentage
    skill_scores,    \* what evaluate_all_skills returned
    contributor_commits, \* self.contributor_data['commits']
    \* --- main (main.py) ---
    main_pc,         \* "start", "loop", "done", "exit_1"
    github_repos,    \* resume_data['github_repos']
    repo_index,      \* the loop's position in github_repos
    all_repo_results, \* the result records, each kept as its repository's index
    cloned,          \* indices of the repositories clone_repo was called for
    analysed,        \* indices of the repositories analyze_repository returned for
    failed,          \* indices of the repositories whose iteration raised
    temp_dir_exists, \* whether the directory temp_repo exists
    working_copies,  \* indices of the repositories whose files are in temp_repo
    detector_saw,    \* for each result record the report ran the evidence
                     \* detector for: the record's repository and what was
                     \* at its repo_path then
    \* --- one call of a function of shared/utils.py, scoring.py or
    \*     contribution_scorer.py on given arguments ---
    validate_pc,     \* "idle", "returned", "raised" (ValueError)
    raw_value,       \* what the call is about: the value before any min() or
                     \* max(), or the arguments
    checked_value    \* what the call returned

scorerVars == <<score_data, repo_scores, aggregated>>
analyzerVars == <<an_pc, contributors, contributor_order, total_commits,
                  total_commits_excluding_bots, total_lines_modified, bot_count,
                  all_files, file_extensions, warnings, assumptions,
                  languages>>
displayVars == <<disp_pc, ranked, validation_errors, bot_report>>
resumeVars == <<resume_pc, matched_name, repo_contribution_pct>>
validationVars == <<validate_pc, raw_value, checked_value>>

skillScorerVars == <<scorer_pc, working_copy, frameworks, authorship_percentage,
                     skill_scores, contributor_commits>>
mainVars == <<main_pc, github_repos, repo_index, all_repo_results, cloned, analysed,
              failed, temp_dir_exists, working_copies, detector_saw>>
otherVars == <<skillScorerVars, mainVars>>

vars == <<scorerVars, analyzerVars, displayVars, validationVars, resumeVars,
         skillScorerVars, mainVars>>

NoValue == [none |-> TRUE]

(***************************************************************************)
(* Exact rationals                                                         *)
(***************************************************************************)
Max(a, b) == IF a >= b THEN a ELSE b
Min(a, b) == IF a <= b THEN a ELSE b

RECURSIVE Gcd(_, _)
Gcd(a, b) == IF b = 0 THEN a ELSE Gcd(b, a % b)

Rat(n, d) == [n |-> n, d |-> d]
RatNorm(r) ==
    LET g == Gcd(IF r.n < 0 THEN -r.n ELSE r.n, r.d)
    IN  IF g = 0 THEN r ELSE Rat(r.n \div g, r.d \div g)
\* a + b over the least common denominator
RatAdd(a, b) ==
    LET l == (a.d \div Gcd(a.d, b.d)) * b.d
    IN  RatNorm(Rat(a.n * (l \div a.d) + b.n * (l \div b.d), l))
RatMulInt(a, k) == RatNorm(Rat(a.n * k, a.d))
RatLt(a, b) == a.n * b.d < b.n * a.d
RatLe(a, b) == a.n * b.d <= b.n * a.d
RatEq(a, b) == a.n * b.d = b.n * a.d
RatLtInt(a, k) == a.n < k * a.d
RatGeInt(a, k) == a.n >= k * a.d
RatMin(a, b) == IF RatLe(a, b) THEN a ELSE b
\* a / b for b > 0, reduced crosswise before multiplying
RatDiv(a, b) ==
    LET g1 == Gcd(IF a.n < 0 THEN -a.n ELSE a.n, b.n)
        g2 == Gcd(b.d, a.d)
        h1 == IF g1 = 0 THEN 1 ELSE g1
    IN  RatNorm(Rat((a.n \div h1) * (b.d \div g2), (a.d \div g2) * (b.n \div h1)))

\* The integers k with k / scale a possible value of Python's round(r, digits)
\* where scale = 10^digits, for r >= 0.
RoundScaled(r, scale) ==
    LET m == r.n * scale
        lo == m \div r.d
        rem2 == 2 * (m % r.d)
    IN  IF rem2 < r.d THEN {lo}
        ELSE IF rem2 > r.d THEN {lo + 1}
        ELSE {lo, lo + 1}

RECURSIVE SeqSumRat(_)
SeqSumRat(s) == IF s = <<>> THEN Rat(0, 1) ELSE RatAdd(Head(s), SeqSumRat(Tail(s)))

(***************************************************************************)
(* contribution_scorer.py: ContributionWeightedScorer                      *)
(***************************************************************************)
THRESHOLDS == [insufficient |-> 5, low |-> 10, medium |-> 30, high |-> 70]

CAPS == [insufficient |-> 0, low |-> 40, medium |-> 60, high |-> 100]

\* An evidence record holds three lists; the scorer reads only their lengths.
Evidence(files, imports, patterns) ==
    [files |-> files, imports |-> imports, patterns |-> patterns]

\* A tier function that starts at the 'low' test: the 'insufficient' test is lost.
get_contribution_tier_no_floor(contribution_pct) ==
    IF RatLtInt(contribution_pct, THRESHOLDS.low) THEN "low"
    ELSE IF RatLtInt(contribution_pct, THRESHOLDS.medium) THEN "medium"
    ELSE "high"

get_contribution_tier(contribution_pct) ==
    IF RatLtInt(contribution_pct, THRESHOLDS.insufficient) THEN "insufficient"
    ELSE IF RatLtInt(contribution_pct, THRESHOLDS.low) THEN "low"
    ELSE IF RatLtInt(contribution_pct, THRESHOLDS.medium) THEN "medium"
    ELSE "high"

\* A base score whose files part saturates at 30 points.
calculate_base_score_files_cap_30(evidence) ==
    LET s1 == IF evidence.files > 0 THEN Min(30, evidence.files * 5) ELSE 0
        s2 == IF evidence.imports > 0 THEN Min(30, evidence.imports * 10) ELSE 0
        s3 == IF evidence.patterns > 0 THEN Min(30, evidence.patterns * 10) ELSE 0
    IN  Min(100, s1 + s2 + s3)

calculate_base_score(evidence) ==
    LET s1 == IF evidence.files > 0 THEN Min(40, evidence.files * 5) ELSE 0
        s2 == IF evidence.imports > 0 THEN Min(30, evidence.imports * 10) ELSE 0
        s3 == IF evidence.patterns > 0 THEN Min(30, evidence.patterns * 10) ELSE 0
    IN  Min(100, s1 + s2 + s3)

\* A cap function that returns the base score whatever the tier's cap is.
apply_contribution_cap_uncapped(base_score, contribution_pct) ==
    LET tier == get_contribution_tier(contribution_pct)
    IN  IF tier = "insufficient"
        THEN [score |-> 0, tier |-> tier, reason |-> "Contribution too low"]
        ELSE [score |-> base_score, tier |-> tier, reason |-> "Full score applied"]

\* Returns (capped_score, tier, reason); the reason text is kept as its kind.
apply_contribution_cap(base_score, contribution_pct) ==
    LET tier == get_contribution_tier(contribution_pct)
        cap == CAPS[tier]
        capped_score == Min(base_score, cap)
    IN  IF tier = "insufficient"
        THEN [score |-> 0, tier |-> tier, reason |-> "Contribution too low"]
        ELSE [score |-> capped_score, tier |-> tier,
              reason |-> IF capped_score < base_score
                         THEN "Capped due to contribution"
                         ELSE "Full score applied"]

\* A score_skill that marks a skill verified only when it also scored.
score_skill_verified_if_scored(skill, evidence, contribution_pct) ==
    LET base_score == calculate_base_score(evidence)
        capped == apply_contribution_cap(base_score, contribution_pct)
    IN  [skill |-> skill,
         verified |-> capped.score > 0,
         base_score |-> base_score,
         final_score |-> capped.score,
         tier |-> capped.tier,
         contribution_pct |-> contribution_pct,
         reason |-> capped.reason,
         evidence |-> evidence,
         files_count |-> evidence.files,
         imports_count |-> evidence.imports,
         patterns_count |-> evidence.patterns]

score_skill(skill, evidence, contribution_pct) ==
    LET base_score == calculate_base_score(evidence)
        capped == apply_contribution_cap(base_score, contribution_pct)
    IN  [skill |-> skill,
         verified |-> (evidence.files > 0 \/ evidence.imports > 0
                        \/ evidence.patterns > 0),
         base_score |-> base_score,
         final_score |-> capped.score,
         tier |-> capped.tier,
         contribution_pct |-> contribution_pct,
         reason |-> capped.reason,
         evidence |-> evidence,
         files_count |-> evidence.files,
         imports_count |-> evidence.imports,
         patterns_count |-> evidence.patterns]

\* A filter that also drops the records of tier 'low'.
valid_scores_drops_low(scores) ==
    SelectSeq(scores, LAMBDA s : s.tier \notin {"insufficient", "low"})

valid_scores(scores) == SelectSeq(scores, LAMBDA s : s.tier # "insufficient")

\* The records' final scores, each times weight w[i], summed.
RECURSIVE WeightedSum(_)
WeightedSum(s) ==
    IF s = <<>> THEN Rat(0, 1)
    ELSE RatAdd(RatMulInt(Head(s).contribution_pct, Head(s).final_score),
                WeightedSum(Tail(s)))

RECURSIVE TotalWeight(_)
TotalWeight(s) ==
    IF s = <<>> THEN Rat(0, 1)
    ELSE RatAdd(Head(s).contribution_pct, TotalWeight(Tail(s)))

RECURSIVE SumFinal(_)
SumFinal(s) == IF s = <<>> THEN 0 ELSE Head(s).final_score + SumFinal(Tail(s))

\* An average that ignores the contribution weights.
weighted_avg_unweighted(valid) == RatNorm(Rat(SumFinal(valid), Len(valid)))

\* A fallback that yields 0 instead of the mean of the final scores.
weighted_avg_zero_fallback(valid) ==
    LET total_weight == TotalWeight(valid)
    IN  IF total_weight.n = 0
        THEN Rat(0, 1)
        ELSE RatDiv(WeightedSum(valid), total_weight)

weighted_avg(valid) ==
    LET total_weight == TotalWeight(valid)
    IN  IF total_weight.n = 0
        THEN RatNorm(Rat(SumFinal(valid), Len(valid)))
        ELSE RatDiv(WeightedSum(valid), total_weight)

\* aggregate_scores; final_score and weighted_avg are in tenths of a point
\* (round(x, 1) * 10).  rounded is the outcome of round(weighted_avg, 1).
aggregate_scores(scores, rounded) ==
    LET valid == valid_scores(scores)
        insufficient_count == Len(scores) - Len(valid)
    IN  IF scores = <<>>
        THEN [final_score |-> 0, verified |-> FALSE, repos_used |-> 0,
              repos_insufficient |-> 0, weighted_avg |-> 0,
              reason |-> "No evidence found in any repository"]
        ELSE IF valid = <<>>
        THEN [final_score |-> 0, verified |-> FALSE, repos_used |-> 0,
              repos_insufficient |-> insufficient_count, weighted_avg |-> 0,
              reason |-> "Insufficient contribution in all repositories"]
        ELSE [final_score |-> rounded,
              verified |-> (\E i \in 1..Len(valid) : valid[i].verified),
              repos_used |-> Len(valid),
              repos_insufficient |-> insufficient_count,
              weighted_avg |-> rounded,
              repo_details |-> valid,
              reason |-> "Aggregated from repos"]

\* The possible outcomes of round(weighted_avg, 1), in tenths.
RoundedAverages(scores) ==
    IF valid_scores(scores) = <<>> THEN {0}
    ELSE RoundScaled(weighted_avg(valid_scores(scores)), 10)

\* display_resume.py line 137: (stats['commits'] / max(total_repo_commits, 1)) * 100
ContributionPct(commits, total_repo_commits) ==
    Rat(commits * 100, Max(total_repo_commits, 1))


(***************************************************************************)
(* shared/utils.py: bot detection.  Names and emails are sequences of      *)
(* characters, so that lower() and the substring tests are computed.       *)
(***************************************************************************)
\* The lower-case letter of each upper-case letter
ToLower ==
    [A |-> "a", B |-> "b", C |-> "c", D |-> "d", E |-> "e", F |-> "f",
     G |-> "g", H |-> "h", I |-> "i", J |-> "j", K |-> "k", L |-> "l",
     M |-> "m", N |-> "n", O |-> "o", P |-> "p", Q |-> "q", R |-> "r",
     S |-> "s", T |-> "t", U |-> "u", V |-> "v", W |-> "w", X |-> "x",
     Y |-> "y", Z |-> "z"]

LowerChar(c) == IF c \in DOMAIN ToLower THEN ToLower[c] ELSE c

\* str.lower()
Lower(str) == [i \in 1..Len(str) |-> LowerChar(str[i])]

\* pattern in str
Contains(str, pattern) ==
    \E i \in 1..(Len(str) - Len(pattern) + 1) :
        SubSeq(str, i, i + Len(pattern) - 1) = pattern

BOT_PATTERNS ==
    {<<"b", "o", "t">>,
     <<"d", "e", "p", "e", "n", "d", "a", "b", "o", "t">>,
     <<"g", "i", "t", "h", "u", "b", "-", "a", "c", "t", "i", "o", "n", "s">>,
     <<"r", "e", "n", "o", "v", "a", "t", "e">>,
     <<"[", "b", "o", "t", "]">>,
     <<"s", "e", "m", "a", "n", "t", "i", "c", "-", "r", "e", "l", "e", "a", "s", "e">>,
     <<"g", "r", "e", "e", "n", "k", "e", "e", "p", "e", "r">>,
     <<"s", "n", "y", "k", "-", "b", "o", "t">>,
     <<"c", "o", "d", "e", "c", "o", "v">>,
     <<"t", "r", "a", "v", "i", "s">>,
     <<"c", "i", "r", "c", "l", "e", "c", "i">>}

NoReplyPatterns == {<<"n", "o", "r", "e", "p", "l", "y">>, <<"n", "o", "-", "r", "e", "p", "l", "y">>}

is_bot_user(author_name, author_email) ==
    LET author_lower == Lower(author_name)
        email_lower == Lower(author_email)
    IN  \/ \E pattern \in BOT_PATTERNS :
              Contains(author_lower, pattern) \/ Contains(email_lower, pattern)
        \/ \E pattern \in NoReplyPatterns : Contains(email_lower, pattern)

\* calculate_authorship_percentage
\* An authorship percentage that is 100 when the repository total is 0.
calculate_authorship_percentage_full_when_empty(author_lines_modified, total) ==
    IF total = 0 THEN Rat(100, 1)
    ELSE RatMin(RatNorm(Rat(author_lines_modified * 100, total)), Rat(100, 1))

calculate_authorship_percentage(author_lines_modified, total) ==
    IF total = 0 THEN Rat(0, 1)
    ELSE RatMin(RatNorm(Rat(author_lines_modified * 100, total)), Rat(100, 1))

\* validate_skill_breakdown: whether it returns (TRUE) or raises ValueError;
\* breakdown is the sequence of the criteria's scores.
validate_skill_breakdown(breakdown) ==
    \A i \in 1..Len(breakdown) : breakdown[i] >= 0 /\ breakdown[i] <= 20

(***************************************************************************)
(* repos/analyzer.py: analyze_repository                                   *)
(***************************************************************************)
\* A file name is <<stem, suffix>>; Path(filename).suffix is the second part.
Suffix(filename) == filename[2]

\* defaultdict(int): a missing key reads as 0
CountOf(counts, key) == IF key \in DOMAIN counts THEN counts[key] ELSE 0

Increment(counts, key) ==
    [k \in DOMAIN counts \cup {key} |->
        IF k = key THEN CountOf(counts, key) + 1 ELSE counts[k]]

\* Increment once per file of the commit
RECURSIVE IncrementAll(_, _)
IncrementAll(counts, files) ==
    IF files = <<>> THEN counts
    ELSE IncrementAll(
            Increment(counts, IF Suffix(Head(files)) = "" THEN "no_ext"
                              ELSE Suffix(Head(files))),
            Tail(files))

Range(seq) == {seq[i] : i \in 1..Len(seq)}

\* The record the defaultdict makes for an author seen for the first time
NewContributor ==
    [commits |-> 0, lines_added |-> 0, lines_deleted |-> 0,
     files_changed |-> {}, commit_messages |-> <<>>,
     file_types |-> <<>>, commit_timestamps |-> <<>>,
     complexity_metrics |-> <<>>, churn_rate |-> Rat(0, 1), is_bot |-> FALSE]

\* A commit: author and email (characters), insertions, deletions, msg (its
\* number of words), committer_date (a day number), modified_files (names)
Commit(author, email, insertions, deletions, msg, committer_date, modified_files) ==
    [author |-> author, email |-> email, insertions |-> insertions,
     deletions |-> deletions, msg |-> msg, committer_date |-> committer_date,
     modified_files |-> modified_files]

\* A loop body that adds the insertions of a commit to lines_added twice.
UpdatedContributor_added_twice(old, commit, is_bot) ==
    [old EXCEPT
        !.is_bot = is_bot,
        !.commits = @ + 1,
        !.lines_added = @ + 2 * commit.insertions,
        !.lines_deleted = @ + commit.deletions,
        !.commit_messages = Append(@, commit.msg),
        !.commit_timestamps = Append(@, commit.committer_date),
        !.complexity_metrics = Append(@, commit.insertions + commit.deletions),
        !.files_changed = @ \cup Range(commit.modified_files),
        !.file_types = IncrementAll(@, commit.modified_files)]

\* A loop body that never sets the bot flag.
UpdatedContributor_never_bot(old, commit, is_bot) ==
    [old EXCEPT
        !.is_bot = FALSE,
        !.commits = @ + 1,
        !.lines_added = @ + commit.insertions,
        !.lines_deleted = @ + commit.deletions,
        !.commit_messages = Append(@, commit.msg),
        !.commit_timestamps = Append(@, commit.committer_date),
        !.complexity_metrics = Append(@, commit.insertions + commit.deletions),
        !.files_changed = @ \cup Range(commit.modified_files),
        !.file_types = IncrementAll(@, commit.modified_files)]

\* The contributor's record after the loop body has run for the commit
UpdatedContributor(old, commit, is_bot) ==
    [old EXCEPT
        !.is_bot = is_bot,
        !.commits = @ + 1,
        !.lines_added = @ + commit.insertions,
        !.lines_deleted = @ + commit.deletions,
        !.commit_messages = Append(@, commit.msg),
        !.commit_timestamps = Append(@, commit.committer_date),
        !.complexity_metrics = Append(@, commit.insertions + commit.deletions),
        !.files_changed = @ \cup Range(commit.modified_files),
        !.file_types = IncrementAll(@, commit.modified_files)]

\* The mapping contributors after the loop body has run for the commit
contributors_after(contribs, commit) ==
    LET author == commit.author
        is_bot == is_bot_user(author, commit.email)
        old == IF author \in DOMAIN contribs THEN contribs[author]
               ELSE NewContributor
    IN  [a \in DOMAIN contribs \cup {author} |->
            IF a = author THEN UpdatedContributor(old, commit, is_bot)
            ELSE contribs[a]]

\* total_commits_excluding_bots after the loop body has run for the commit
excluding_bots_after(total, commit) ==
    IF is_bot_user(commit.author, commit.email) THEN total ELSE total + 1

\* One iteration of the loop over traverse_commits()
ProcessCommit(commit) ==
    LET author == commit.author
        is_bot == is_bot_user(author, commit.email)
    IN  /\ an_pc = "traverse"
        /\ total_commits' = total_commits + 1
        /\ contributors' = contributors_after(contributors, commit)
        /\ contributor_order' =
              IF author \in DOMAIN contributors THEN contributor_order
              ELSE Append(contributor_order, author)
        /\ bot_count' = IF is_bot THEN bot_count + 1 ELSE bot_count
        /\ total_commits_excluding_bots' =
              excluding_bots_after(total_commits_excluding_bots, commit)
        /\ total_lines_modified' =
              total_lines_modified + commit.insertions + commit.deletions
        /\ all_files' = all_files \cup Range(commit.modified_files)
        /\ file_extensions' = IncrementAll(file_extensions, commit.modified_files)
        /\ UNCHANGED <<an_pc, warnings, assumptions, languages>>
        /\ UNCHANGED <<scorerVars, displayVars, validationVars, resumeVars, otherVars>>

\* Warnings that leave out the small-repository warning of an empty stream.
AnalysisWarningsFor_nonempty_only(bots, total) ==
    (IF bots > 0
     THEN {[kind |-> "Detected bot/automated contributor(s)", count |-> bots]}
     ELSE {})
    \cup (IF total > 0 /\ total < 10
          THEN {[kind |-> "Small repository", count |-> total]}
          ELSE {})

\* The warnings added after the loop, each with the count its text states
AnalysisWarningsFor(bots, total) ==
    (IF bots > 0
     THEN {[kind |-> "Detected bot/automated contributor(s)", count |-> bots]}
     ELSE {})
    \cup (IF total < 10
          THEN {[kind |-> "Small repository", count |-> total]}
          ELSE {})

\* After the loop: churn rate, the repository total on every record, the
\* warnings, the static analyses, the return
FinishAnalysis(detected) ==
    /\ an_pc = "traverse"
    /\ contributors' =
          [a \in DOMAIN contributors |->
              LET c == contributors[a]
                  total_changes == c.lines_added + c.lines_deleted
                  withChurn == [c EXCEPT !.churn_rate =
                                   RatNorm(Rat(c.lines_deleted, Max(total_changes, 1)))]
              IN  [f \in DOMAIN withChurn \cup {"total_lines_modified_in_repo"} |->
                      IF f = "total_lines_modified_in_repo" THEN total_lines_modified
                      ELSE withChurn[f]]]
    /\ warnings' = AnalysisWarningsFor(bot_count, total_commits)
    /\ assumptions' =
          IF Cardinality(DOMAIN contributors) = 1
          THEN {"Single contributor detected. Authorship confidence set to 100%."}
          ELSE {}
    /\ languages' = detected
    /\ an_pc' = "returned"
    /\ UNCHANGED <<contributor_order, total_commits, total_commits_excluding_bots,
                   total_lines_modified, bot_count, all_files, file_extensions>>
    /\ UNCHANGED <<scorerVars, displayVars, validationVars, resumeVars, otherVars>>

(***************************************************************************)
(* config.py and scoring.py: the overall skill score of one contributor.   *)
(* Scores are exact rationals until calculate_skill_score rounds them.     *)
(***************************************************************************)
WEIGHTS ==
    [code_quality |-> Rat(35, 100), authorship_confidence |-> Rat(25, 100),
     commit_maturity |-> Rat(20, 100), project_complexity |-> Rat(10, 100)]

CODE_QUALITY ==
    [message_quality_weight |-> 40, churn_rate_weight |-> 30,
     file_diversity_weight |-> 30, min_meaningful_words |-> 3,
     diversity_multiplier |-> 10]

COMMIT_MATURITY ==
    [optimal_min_complexity |-> 50, optimal_max_complexity |-> 200,
     optimal_min_interval_days |-> 1, optimal_max_interval_days |-> 7,
     optimal_interval_center |-> 4]

PROJECT_COMPLEXITY ==
    [file_coverage_weight |-> 40, tech_diversity_weight |-> 30,
     volume_weight |-> 30, diversity_multiplier |-> 15, volume_divisor |-> 50]

RatSub(a, b) == RatAdd(a, Rat(-b.n, b.d))
RatMax(a, b) == IF RatLe(a, b) THEN b ELSE a
RatAbs(a) == IF a.n < 0 THEN Rat(-a.n, a.d) ELSE a
RatMul(a, b) == RatNorm(Rat(a.n * b.n, a.d * b.d))
RatInt(k) == Rat(k, 1)

RECURSIVE SeqSum(_)
SeqSum(s) == IF s = <<>> THEN 0 ELSE Head(s) + SeqSum(Tail(s))

\* sorted(timestamps)
RECURSIVE Sorted(_)
Sorted(s) ==
    IF s = <<>> THEN <<>>
    ELSE LET i == CHOOSE k \in 1..Len(s) : \A j \in 1..Len(s) : s[k] <= s[j]
         IN  <<s[i]>> \o Sorted(SubSeq(s, 1, i - 1) \o SubSeq(s, i + 1, Len(s)))

\* timedelta.days for a difference of two timestamps counted in hours
Days(delta) == delta \div 24

calculate_code_quality(contributor_data) ==
    LET messages == contributor_data.commit_messages
        meaningful_commits ==
            Cardinality({i \in 1..Len(messages) :
                            Len(messages[i]) > CODE_QUALITY.min_meaningful_words})
        message_quality ==
            RatNorm(Rat(meaningful_commits * CODE_QUALITY.message_quality_weight,
                        Max(Len(messages), 1)))
        churn_score ==
            RatMulInt(RatSub(RatInt(1), contributor_data.churn_rate),
                      CODE_QUALITY.churn_rate_weight)
        file_diversity ==
            Min(Cardinality(DOMAIN contributor_data.file_types)
                    * CODE_QUALITY.diversity_multiplier,
                CODE_QUALITY.file_diversity_weight)
    IN  RatMin(RatAdd(RatAdd(message_quality, churn_score), RatInt(file_diversity)),
               RatInt(100))

calculate_authorship_confidence(contributor_data, total) ==
    LET author_lines == contributor_data.lines_added + contributor_data.lines_deleted
        total_lines ==
            IF "total_lines_modified_in_repo" \in DOMAIN contributor_data
            THEN contributor_data.total_lines_modified_in_repo
            ELSE author_lines
        authorship_pct == calculate_authorship_percentage(author_lines, total_lines)
    IN  RatMin(authorship_pct, RatInt(100))

calculate_commit_maturity(contributor_data) ==
    LET metrics == contributor_data.complexity_metrics
        avg_complexity == RatNorm(Rat(SeqSum(metrics), Max(Len(metrics), 1)))
        min_complexity == COMMIT_MATURITY.optimal_min_complexity
        max_complexity == COMMIT_MATURITY.optimal_max_complexity
        complexity_score ==
            IF RatGeInt(avg_complexity, min_complexity)
               /\ RatLe(avg_complexity, RatInt(max_complexity))
            THEN RatInt(60)
            ELSE IF RatLtInt(avg_complexity, min_complexity) THEN RatInt(40)
            ELSE RatMax(RatInt(20),
                        RatSub(RatInt(60),
                               RatMul(RatSub(avg_complexity, RatInt(max_complexity)),
                                      Rat(1, 10))))
        timestamps == contributor_data.commit_timestamps
        timestamps_sorted == Sorted(timestamps)
        intervals ==
            [i \in 1..(Len(timestamps_sorted) - 1) |->
                Days(timestamps_sorted[i + 1] - timestamps_sorted[i])]
        avg_interval == RatNorm(Rat(SeqSum(intervals), Max(Len(intervals), 1)))
        consistency_score ==
            IF Len(timestamps) > 1
            THEN IF RatGeInt(avg_interval, COMMIT_MATURITY.optimal_min_interval_days)
                    /\ RatLe(avg_interval,
                             RatInt(COMMIT_MATURITY.optimal_max_interval_days))
                 THEN RatInt(40)
                 ELSE RatMax(RatInt(10),
                             RatSub(RatInt(40),
                                    RatMulInt(RatAbs(RatSub(avg_interval,
                                        RatInt(COMMIT_MATURITY.optimal_interval_center))),
                                        2)))
            ELSE RatInt(20)
    IN  RatMin(RatAdd(complexity_score, consistency_score), RatInt(100))

calculate_project_complexity(contributor_data, files, extensions) ==
    LET files_touched ==
            RatNorm(Rat(Cardinality(contributor_data.files_changed),
                        Max(Cardinality(files), 1)))
        file_coverage ==
            RatMin(RatMulInt(files_touched, 100),
                   RatInt(PROJECT_COMPLEXITY.file_coverage_weight))
        tech_diversity ==
            Min(Cardinality(DOMAIN contributor_data.file_types)
                    * PROJECT_COMPLEXITY.diversity_multiplier,
                PROJECT_COMPLEXITY.tech_diversity_weight)
        total_lines == contributor_data.lines_added
        volume_score ==
            RatMin(RatNorm(Rat(total_lines, PROJECT_COMPLEXITY.volume_divisor)),
                   RatInt(PROJECT_COMPLEXITY.volume_weight))
    IN  RatMin(RatAdd(RatAdd(file_coverage, RatInt(tech_diversity)), volume_score),
               RatInt(100))

\* validate_score: whether the score passes, i.e. no ValueError is raised
validate_score(score) == RatGeInt(score, 0) /\ RatLe(score, RatInt(100))

\* A weighted formula that gives commit maturity the weight 0.30.
weighted_skill_score_maturity_30(code_quality, authorship_confidence, commit_maturity, project_complexity) ==
    RatAdd(RatAdd(RatMul(WEIGHTS.code_quality, code_quality),
                  RatMul(WEIGHTS.authorship_confidence, authorship_confidence)),
           RatAdd(RatMul(Rat(30, 100), commit_maturity),
                  RatMul(WEIGHTS.project_complexity, project_complexity)))

\* The weighted formula of calculate_skill_score
weighted_skill_score(code_quality, authorship_confidence, commit_maturity, project_complexity) ==
    RatAdd(RatAdd(RatMul(WEIGHTS.code_quality, code_quality),
                  RatMul(WEIGHTS.authorship_confidence, authorship_confidence)),
           RatAdd(RatMul(WEIGHTS.commit_maturity, commit_maturity),
                  RatMul(WEIGHTS.project_complexity, project_complexity)))

\* calculate_skill_score: the set of records it can return, each score in
\* hundredths (round(x, 2) * 100); the empty set when it raises ValueError.
calculate_skill_score(contributor_data, total, files, extensions) ==
    LET code_quality == calculate_code_quality(contributor_data)
        authorship_confidence == calculate_authorship_confidence(contributor_data, total)
        commit_maturity == calculate_commit_maturity(contributor_data)
        project_complexity ==
            calculate_project_complexity(contributor_data, files, extensions)
        skill_score == weighted_skill_score(code_quality, authorship_confidence,
                                            commit_maturity, project_complexity)
    IN  IF ~ (/\ validate_score(code_quality)
              /\ validate_score(authorship_confidence)
              /\ validate_score(commit_maturity)
              /\ validate_score(project_complexity)
              /\ validate_score(skill_score))
        THEN {}
        ELSE {[skill_score |-> s, code_quality |-> cq,
               authorship_confidence |-> ac, commit_maturity |-> cm,
               project_complexity |-> pc] :
                 s \in RoundScaled(skill_score, 100),
                 cq \in RoundScaled(code_quality, 100),
                 ac \in RoundScaled(authorship_confidence, 100),
                 cm \in RoundScaled(commit_maturity, 100),
                 pc \in RoundScaled(project_complexity, 100)}


(***************************************************************************)
(* scoring/skill_scorer.py: SkillScorer.__init__                           *)
(***************************************************************************)
\* self.authorship_percentage
SkillScorer_authorship_percentage(contributor_data) ==
    LET author_lines == contributor_data.lines_added + contributor_data.lines_deleted
        total_lines ==
            IF "total_lines_modified_in_repo" \in DOMAIN contributor_data
            THEN contributor_data.total_lines_modified_in_repo
            ELSE author_lines
    IN  calculate_authorship_percentage(author_lines, total_lines)

(***************************************************************************)
(* display.py: display_results                                             *)
(***************************************************************************)
\* sum(languages.values())
RECURSIVE SumValues(_)
SumValues(f) ==
    IF DOMAIN f = {} THEN 0
    ELSE LET k == CHOOSE x \in DOMAIN f : TRUE
         IN  f[k] + SumValues([x \in DOMAIN f \ {k} |-> f[x]])

\* list.sort(key=lambda x: x[2]['skill_score'], reverse=True): highest first,
\* entries of equal score keep their order
RECURSIVE SortBySkillScore(_)
SortBySkillScore(entries) ==
    IF entries = <<>> THEN <<>>
    ELSE LET i == CHOOSE k \in 1..Len(entries) :
                    /\ \A j \in 1..Len(entries) :
                          entries[k].scores.skill_score >= entries[j].scores.skill_score
                    /\ \A j \in 1..(k - 1) :
                          entries[j].scores.skill_score < entries[k].scores.skill_score
         IN  <<entries[i]>>
             \o SortBySkillScore(SubSeq(entries, 1, i - 1)
                                 \o SubSeq(entries, i + 1, Len(entries)))

\* The sequence of f(s[i]) for the s[i] that satisfy keep
\* A bot report that takes the bots to be the contributors with a bot name.
BotReport_by_name(contribs, order) ==
    LET bots == SelectSeq(order, LAMBDA a : is_bot_user(a, <<>>))
    IN  [i \in 1..Len(bots) |->
            [name |-> bots[i], commits |-> contribs[bots[i]].commits,
             lines_added |-> contribs[bots[i]].lines_added,
             lines_deleted |-> contribs[bots[i]].lines_deleted]]

\* _display_bot_contributors: the entries it prints
BotReport(contribs, order) ==
    LET bots == SelectSeq(order, LAMBDA a : contribs[a].is_bot)
    IN  [i \in 1..Len(bots) |->
            [name |-> bots[i], commits |-> contribs[bots[i]].commits,
             lines_added |-> contribs[bots[i]].lines_added,
             lines_deleted |-> contribs[bots[i]].lines_deleted]]

\* The results calculate_skill_score can give for one author of the mapping
ScoresOf(a) ==
    calculate_skill_score(contributors[a], total_commits_excluding_bots,
                          all_files, file_extensions)

display_results ==
    LET nonbots == {a \in DOMAIN contributors : ~ contributors[a].is_bot}
        scored == {a \in nonbots : ScoresOf(a) # {}}
    IN  /\ an_pc = "returned"
        /\ disp_pc = "idle"
        /\ IF DOMAIN languages # {} /\ SumValues(languages) = 0
           THEN \* _display_technology_stack divides by sum(languages.values())
                /\ disp_pc' = "raised"
                /\ UNCHANGED <<ranked, validation_errors, bot_report>>
           ELSE \E sc \in [scored -> UNION {ScoresOf(a) : a \in scored}] :
                /\ \A a \in scored : sc[a] \in ScoresOf(a)
                /\ ranked' =
                      LET kept == SelectSeq(contributor_order, LAMBDA a : a \in scored)
                      IN  SortBySkillScore(
                              [i \in 1..Len(kept) |->
                                  [author |-> kept[i], scores |-> sc[kept[i]]]])
                /\ validation_errors' = nonbots \ scored
                /\ IF scored # {} /\ total_commits_excluding_bots = 0
                   THEN \* _display_contributor_details divides by total_commits
                        /\ disp_pc' = "raised"
                        /\ UNCHANGED bot_report
                   ELSE /\ bot_report' = BotReport(contributors, contributor_order)
                        /\ disp_pc' = "displayed"
        /\ UNCHANGED <<scorerVars, analyzerVars, resumeVars, validationVars, otherVars>>

(***************************************************************************)
(* display_resume.py: the candidate's part of one repository               *)
(***************************************************************************)
\* str.split(): the words between blanks
RECURSIVE Split(_)
Split(str) ==
    IF str = <<>> THEN <<>>
    ELSE IF Head(str) = " " THEN Split(Tail(str))
    ELSE LET stops == {i \in 1..Len(str) : str[i] = " "}
             n == IF stops = {} THEN Len(str) + 1
                  ELSE CHOOSE i \in stops : \A j \in stops : i <= j
         IN  <<SubSeq(str, 1, n - 1)>> \o Split(SubSeq(str, n, Len(str)))

\* The first name of a sequence of names, or NoValue (None) when it is empty
FirstOf(names) == IF names = <<>> THEN NoValue ELSE Head(names)

find_candidate_in_contributors(contribs, order, candidate_name, github_username) ==
    LET name_parts == Split(Lower(candidate_name))
        ci == FirstOf(SelectSeq(order, LAMBDA c : Lower(c) = Lower(candidate_name)))
        partial == FirstOf(SelectSeq(order, LAMBDA c :
                       \E p \in 1..Len(name_parts) :
                           Contains(Lower(c), name_parts[p])))
        by_user == FirstOf(SelectSeq(order, LAMBDA c :
                       Contains(Lower(c), Lower(github_username))))
    IN  IF candidate_name \in DOMAIN contribs THEN candidate_name
        ELSE IF ci # NoValue THEN ci
        ELSE IF partial # NoValue THEN partial
        ELSE IF github_username # <<>> THEN by_user
        ELSE NoValue

\* One iteration of the loop over repo_results, for a repository in which
\* the detector found the given skills (a sequence of evidence records)
display_resume_repo(candidate_name, github_username, detected_skills) ==
    LET matched == find_candidate_in_contributors(contributors, contributor_order,
                                                  candidate_name, github_username)
    IN  /\ an_pc = "returned"
        /\ resume_pc = "idle"
        /\ matched_name' = matched
        /\ IF matched = NoValue
           THEN /\ resume_pc' = "no_match"
                /\ UNCHANGED <<repo_contribution_pct, scorerVars>>
           ELSE IF contributors[matched].is_bot
           THEN /\ resume_pc' = "bot_skipped"
                /\ UNCHANGED <<repo_contribution_pct, scorerVars>>
           ELSE LET stats == contributors[matched]
                    pct == RatNorm(ContributionPct(stats.commits,
                                                   total_commits_excluding_bots))
                    records == [i \in 1..Len(detected_skills) |->
                                   score_skill("Python", detected_skills[i], pct)]
                IN  /\ resume_pc' = "scored"
                    /\ repo_contribution_pct' = pct
                    /\ repo_scores' = repo_scores \o records
                    /\ score_data' = IF records = <<>> THEN score_data
                                     ELSE records[Len(records)]
                    /\ UNCHANGED aggregated
        /\ UNCHANGED <<analyzerVars, displayVars, validationVars, otherVars>>

(***************************************************************************)
(* code_analysis/language_detector.py: detect_frameworks, for the four     *)
(* frameworks SkillScorer evaluates.  A working copy is a record:          *)
(*   requirements  [exists, text]: whether requirements.txt is there, and  *)
(*                 its text                                                *)
(*   package_json  [exists, deps]: whether package.json is there, and the  *)
(*                 names of its dependencies and devDependencies           *)
(*   files         the file names of the tree, each <<stem, suffix>>       *)
(*   code          the code patterns that occur in its source files        *)
(***************************************************************************)
FRAMEWORK_PATTERNS ==
    [React |->
        [dependencies |-> {<<"r", "e", "a", "c", "t">>,
                           <<"r", "e", "a", "c", "t", "-", "d", "o", "m">>},
         files |-> {<<"", ".jsx">>, <<"", ".tsx">>},
         code_patterns |-> {"import React", "from \"react\"", "from 'react'"},
         package_file |-> "package.json"],
     Django |->
        [dependencies |-> {<<"d", "j", "a", "n", "g", "o">>,
                           <<"D", "j", "a", "n", "g", "o">>},
         files |-> {<<"manage", ".py">>, <<"settings", ".py">>, <<"wsgi", ".py">>},
         code_patterns |-> {"from django", "import django", "models.Model"},
         package_file |-> "requirements.txt"],
     NodeJS |->
        [dependencies |-> {<<"e", "x", "p", "r", "e", "s", "s">>,
                           <<"f", "a", "s", "t", "i", "f", "y">>,
                           <<"k", "o", "a">>, <<"n", "e", "s", "t">>},
         files |-> {<<"server", ".js">>, <<"app", ".js">>, <<"index", ".js">>},
         code_patterns |-> {"require(", "app.listen(", "express()"},
         package_file |-> "package.json"],
     TailwindCSS |->
        [dependencies |-> {<<"t", "a", "i", "l", "w", "i", "n", "d", "c", "s", "s">>},
         files |-> {<<"tailwind.config", ".js">>, <<"tailwind.config", ".ts">>},
         code_patterns |-> {"@tailwind", "@apply", "tailwind"},
         package_file |-> "package.json"]]

\* filename.startswith('.'): the entry is an extension, not a file name
IsExtension(filename) == filename[1] = ""

\* _check_dependencies: exact keys in package.json, a case-blind substring
\* test on the text of requirements.txt
check_dependencies(tree, package_file, dependencies) ==
    IF package_file = "package.json"
    THEN IF ~ tree.package_json.exists THEN {}
         ELSE {dep \in dependencies : dep \in tree.package_json.deps}
    ELSE IF ~ tree.requirements.exists THEN {}
         ELSE {dep \in dependencies :
                  Contains(Lower(tree.requirements.text), Lower(dep))}

\* _check_files: entries that start with a dot are never looked up
check_files(tree, filenames) ==
    {filename \in filenames : ~ IsExtension(filename) /\ filename \in tree.files}

check_code_patterns(tree, patterns) == patterns \cap tree.code

\* _check_extensions
check_extensions(tree, extensions) ==
    \E file \in tree.files : \E ext \in extensions : file[2] = ext[2]

framework_signals(tree, framework) ==
    LET patterns == FRAMEWORK_PATTERNS[framework]
    IN  [dependencies_found |->
            check_dependencies(tree, patterns.package_file, patterns.dependencies),
         files_found |-> check_files(tree, patterns.files),
         patterns_found |-> check_code_patterns(tree, patterns.code_patterns)]

\* A score without the bonus for files with one of the framework's extensions.
framework_score_no_bonus(tree, framework) ==
    LET signals == framework_signals(tree, framework)
    IN  (IF signals.dependencies_found # {} THEN 40 ELSE 0)
        + (IF signals.files_found # {} THEN 30 ELSE 0)
        + (IF signals.patterns_found # {} THEN 30 ELSE 0)

\* The score detect_frameworks gives one framework
framework_score(tree, framework) ==
    LET patterns == FRAMEWORK_PATTERNS[framework]
        signals == framework_signals(tree, framework)
        score == (IF signals.dependencies_found # {} THEN 40 ELSE 0)
                 + (IF signals.files_found # {} THEN 30 ELSE 0)
                 + (IF signals.patterns_found # {} THEN 30 ELSE 0)
        extensions == {f \in patterns.files : IsExtension(f)}
    IN  IF score > 0 /\ extensions # {} /\ check_extensions(tree, extensions)
        THEN score + 10
        ELSE score

detect_frameworks(tree) ==
    LET included == {fw \in DOMAIN FRAMEWORK_PATTERNS : framework_score(tree, fw) >= 50}
    IN  [fw \in included |->
            [confidence |-> Min(framework_score(tree, fw), 100),
             signals |-> framework_signals(tree, fw)]]

(***************************************************************************)
(* scoring/skill_scorer.py: evaluate_all_skills, the framework part        *)
(***************************************************************************)
\* The names of the criteria of each framework's evaluator
CRITERIA ==
    [React |-> <<"react_presence", "hooks_usage", "project_size",
                 "git_maturity", "authorship_confidence">>,
     Django |-> <<"django_presence", "app_structure", "orm_usage",
                  "rest_practices", "authorship_confidence">>,
     NodeJS |-> <<"node_presence", "api_design", "middleware_usage",
                  "git_maturity", "authorship_confidence">>,
     TailwindCSS |-> <<"tailwind_presence", "utility_usage", "config_customization",
                       "project_scale", "authorship_confidence">>]

\* The authorship criterion every evaluator ends with
auth_score(authorship) ==
    IF RatGeInt(authorship, 70) THEN 20
    ELSE IF RatGeInt(authorship, 50) THEN 12
    ELSE IF RatGeInt(authorship, 30) THEN 6
    ELSE 0

\* The commit counts from which the git_maturity criterion gives 20, 12 and
\* 6 points, for the evaluators that have the criterion
GIT_MATURITY ==
    [React |-> <<30, 15, 5>>, NodeJS |-> <<25, 12, 5>>, Python |-> <<25, 12, 5>>,
     JavaScript |-> <<30, 15, 6>>, TypeScript |-> <<25, 12, 5>>,
     C |-> <<20, 10, 4>>]
    @@ ("C++" :> <<25, 12, 5>>)

\* The if/elif ladder of a criterion: 20, 12 or 6 points from the three
\* thresholds on, else 0
tiered(count, thresholds) ==
    IF count >= thresholds[1] THEN 20
    ELSE IF count >= thresholds[2] THEN 12
    ELSE IF count >= thresholds[3] THEN 6
    ELSE 0

\* The fourth criterion of a framework's evaluator: git_maturity from the
\* contributor's commits (React, NodeJS), rest_practices from the number of
\* REST patterns in the code (Django), project_scale from the lines of code
\* (TailwindCSS)
fourth_criterion(fw, measures, commits) ==
    IF fw = "Django" THEN tiered(measures.rest_count, <<8, 4, 1>>)
    ELSE IF fw = "TailwindCSS" THEN tiered(measures.code_lines, <<2000, 1000, 300>>)
    ELSE tiered(commits, GIT_MATURITY[fw])

\* An evaluator that records the remaining criteria after a presence of 0.
evaluate_framework_no_stop(fw, detected, measures, commits, authorship) ==
    LET present ==
            IF fw = "TailwindCSS" THEN fw \in DOMAIN detected
            ELSE /\ fw \in DOMAIN detected
                 /\ detected[fw].confidence >= 60
                 /\ detected[fw].signals.dependencies_found # {}
        scores == <<IF present THEN 20 ELSE 0, measures.second, measures.third,
                    fourth_criterion(fw, measures, commits), auth_score(authorship)>>
    IN  [total_score |-> SeqSum(scores), max_score |-> 100,
         percentage |-> SeqSum(scores),
         breakdown |-> [i \in 1..5 |->
                           [criterion |-> CRITERIA[fw][i], score |-> scores[i],
                            reason |-> [text |-> "scored"]]]]

\* _evaluate_react, _evaluate_django, _evaluate_nodejs, _evaluate_tailwind.
\* measures holds what the evaluators measure in the working copy: the
\* scores of the criteria 2 and 3 (second, third), the number of REST
\* patterns (rest_count) and the lines of code (code_lines).
evaluate_framework(fw, detected, measures, commits, authorship) ==
    LET present ==
            IF fw = "TailwindCSS" THEN fw \in DOMAIN detected
            ELSE /\ fw \in DOMAIN detected
                 /\ detected[fw].confidence >= 60
                 /\ detected[fw].signals.dependencies_found # {}
        scores == <<20, measures.second, measures.third,
                    fourth_criterion(fw, measures, commits), auth_score(authorship)>>
    IN  IF ~ present
        THEN [total_score |-> 0, max_score |-> 100, percentage |-> 0,
              breakdown |-> <<[criterion |-> CRITERIA[fw][1], score |-> 0,
                               reason |-> [text |-> "not detected"]]>>]
        ELSE [total_score |-> SeqSum(scores), max_score |-> 100,
              percentage |-> SeqSum(scores),
              breakdown |-> [i \in 1..5 |->
                                [criterion |-> CRITERIA[fw][i], score |-> scores[i],
                                 reason |-> [text |-> "scored"]]]]

\* _get_language_stats: the extensions of each language, and the number of
\* files of the working copy that end with one of them
LANGUAGE_EXTENSIONS ==
    [Python |-> {".py"}, JavaScript |-> {".js", ".mjs", ".cjs"},
     TypeScript |-> {".ts", ".tsx"}, C |-> {".c", ".h"}]
    @@ ("C++" :> {".cpp", ".hpp", ".cc", ".cxx"})

file_count(tree, lang) ==
    Cardinality({file \in tree.files : file[2] \in LANGUAGE_EXTENSIONS[lang]})

\* The file counts from which the presence criterion of a language gives 20,
\* 12 and 6 points
LANGUAGE_PRESENCE ==
    [Python |-> <<10, 5, 1>>, JavaScript |-> <<15, 8, 3>>,
     TypeScript |-> <<10, 5, 1>>, C |-> <<10, 5, 1>>]
    @@ ("C++" :> <<10, 5, 1>>)

LANGUAGE_CRITERIA ==
    [Python |-> <<"python_presence", "python_structure", "function_complexity",
                  "git_maturity", "authorship_confidence">>,
     JavaScript |-> <<"js_presence", "modern_js_usage", "modularity",
                      "git_maturity", "authorship_confidence">>,
     TypeScript |-> <<"ts_presence", "type_safety", "config_quality",
                      "git_maturity", "authorship_confidence">>,
     C |-> <<"c_presence", "pointer_usage", "modular_design",
             "git_maturity", "authorship_confidence">>]
    @@ ("C++" :> <<"cpp_presence", "oop_usage", "memory_management",
                   "git_maturity", "authorship_confidence">>)

\* _evaluate_python, _evaluate_javascript, _evaluate_typescript, _evaluate_c,
\* _evaluate_cpp; the criteria 2 and 3 are taken from measures.
evaluate_language(lang, count, measures, commits, authorship) ==
    LET presence_score == tiered(count, LANGUAGE_PRESENCE[lang])
        scores == <<presence_score, measures.second, measures.third,
                    tiered(commits, GIT_MATURITY[lang]), auth_score(authorship)>>
    IN  IF presence_score = 0
        THEN [total_score |-> 0, max_score |-> 100, percentage |-> 0,
              breakdown |-> <<[criterion |-> LANGUAGE_CRITERIA[lang][1], score |-> 0,
                               reason |-> [text |-> "files", file_count |-> count]]>>]
        ELSE [total_score |-> SeqSum(scores), max_score |-> 100,
              percentage |-> SeqSum(scores),
              breakdown |-> [i \in 1..5 |->
                                [criterion |-> LANGUAGE_CRITERIA[lang][i],
                                 score |-> scores[i],
                                 reason |-> [text |-> "scored"]]]]

\* The entry of a framework that is detected with a confidence below 60
low_confidence_entry(fw, detected) ==
    [total_score |-> 0, max_score |-> 100, percentage |-> 0,
     breakdown |-> <<[criterion |-> CRITERIA[fw][1], score |-> 0,
                      reason |-> [text |-> "detected but confidence too low",
                                  confidence |-> detected[fw].confidence,
                                  threshold |-> 60]]>>]

\* The frameworks whose evaluator evaluate_all_skills calls
evaluated_frameworks(detected) ==
    {fw \in DOMAIN detected \cap DOMAIN CRITERIA : detected[fw].confidence >= 60}

\* The languages whose evaluator evaluate_all_skills calls
evaluated_languages(tree) ==
    {lang \in DOMAIN LANGUAGE_EXTENSIONS : file_count(tree, lang) > 0}

evaluate_all_skills(tree, detected, measures, commits, authorship) ==
    [fw \in DOMAIN detected \cap DOMAIN CRITERIA |->
        IF fw \in evaluated_frameworks(detected)
        THEN evaluate_framework(fw, detected, measures, commits, authorship)
        ELSE low_confidence_entry(fw, detected)]
    @@ [lang \in evaluated_languages(tree) |->
           evaluate_language(lang, file_count(tree, lang), measures, commits,
                             authorship)]

\* SkillScorer.__init__
SkillScorerInit(tree, contributor_data) ==
    /\ scorer_pc = "none"
    /\ working_copy' = tree
    /\ frameworks' = detect_frameworks(tree)
    /\ authorship_percentage' = SkillScorer_authorship_percentage(contributor_data)
    /\ contributor_commits' = contributor_data.commits
    /\ scorer_pc' = "constructed"
    /\ UNCHANGED <<skill_scores, mainVars>>
    /\ UNCHANGED <<scorerVars, analyzerVars, displayVars, validationVars, resumeVars>>

\* SkillScorer.evaluate_all_skills
EvaluateAllSkills(measures) ==
    /\ scorer_pc = "constructed"
    /\ skill_scores' = evaluate_all_skills(working_copy, frameworks, measures,
                                           contributor_commits,
                                           authorship_percentage)
    /\ scorer_pc' = "evaluated"
    /\ UNCHANGED <<working_copy, frameworks, authorship_percentage,
                   contributor_commits, mainVars>>
    /\ UNCHANGED <<scorerVars, analyzerVars, displayVars, validationVars, resumeVars>>

(***************************************************************************)
(* resume_parser.py and main.py: the loop over the candidate's             *)
(* repositories.  A URL is kept as [parts |-> n], the number of path       *)
(* segments after the host.                                                *)
(***************************************************************************)
classify_github_url(url) ==
    IF url.parts = 2 THEN "repository"
    ELSE IF url.parts = 1 THEN "profile"
    ELSE IF url.parts >= 2 THEN "repository"
    ELSE "unknown"

\* A handler that gives up on the whole run when one repository fails.
repo_error_target_abort == "exit_1"

\* Where the inner except handler sends the loop: continue
repo_error_target == "loop"

\* clone_repo(url, temp_dir) for repository i: a directory that is there is
\* removed, then the clone is made
clone_repo(copies, i) == {i}

\* A cleanup that leaves the directory in place.
cleanup_repo_keeps(copies) == copies

\* cleanup_repo(temp_dir): shutil.rmtree when the directory exists
cleanup_repo(copies) == {}

\* parse_resume_file, and the exit when the resume names no repository
ParseResume(repos) ==
    /\ main_pc = "start"
    /\ github_repos' = repos
    /\ main_pc' = IF repos = <<>> THEN "exit_1" ELSE "loop"
    /\ UNCHANGED <<repo_index, all_repo_results, cloned, analysed, failed,
                   temp_dir_exists, working_copies, detector_saw>>

\* The start of an iteration: a profile URL is skipped; otherwise clone_repo
\* runs, and when it raises the handler cleans up and the loop goes on.
BeginRepo(clone_ok) ==
    LET i == repo_index
    IN  /\ main_pc = "loop"
        /\ i <= Len(github_repos)
        /\ IF classify_github_url(github_repos[i]) = "profile"
           THEN /\ repo_index' = i + 1
                /\ UNCHANGED <<main_pc, cloned, failed, temp_dir_exists,
                               working_copies>>
           ELSE /\ cloned' = cloned \cup {i}
                /\ IF clone_ok
                   THEN /\ main_pc' = "analysing"
                        /\ working_copies' = clone_repo(working_copies, i)
                        /\ UNCHANGED <<repo_index, failed>>
                   ELSE /\ failed' = failed \cup {i}
                        /\ working_copies' = cleanup_repo(working_copies)
                        /\ repo_index' = i + 1
                        /\ main_pc' = repo_error_target
                /\ temp_dir_exists' = (working_copies' # {})
        /\ UNCHANGED <<github_repos, all_repo_results, analysed, detector_saw>>

\* analyze_repository on the clone, then the record and the cleanup, or the
\* handler's cleanup when the analysis raises
AnalyseRepo(analysis_ok) ==
    LET i == repo_index
    IN  /\ main_pc = "analysing"
        /\ working_copies' = cleanup_repo(working_copies)
        /\ temp_dir_exists' = (working_copies' # {})
        /\ repo_index' = i + 1
        /\ IF analysis_ok
           THEN /\ analysed' = analysed \cup {i}
                /\ all_repo_results' = Append(all_repo_results, i)
                /\ main_pc' = "loop"
                /\ UNCHANGED failed
           ELSE /\ failed' = failed \cup {i}
                /\ main_pc' = repo_error_target
                /\ UNCHANGED <<analysed, all_repo_results>>
        /\ UNCHANGED <<github_repos, cloned, detector_saw>>

\* After the loop: exit when nothing was analysed, else the report, which
\* may raise; the finally clause cleans up.  scored holds the positions of
\* the result records for which display_resume_results reached
\* SkillDetector(repo_path).detect_all_skills (a matched contributor that is
\* not a bot), before the report returned or raised.
FinishMain(report_ok, scored) ==
    /\ main_pc = "loop"
    /\ repo_index > Len(github_repos)
    /\ main_pc' = IF all_repo_results = <<>> \/ ~ report_ok THEN "exit_1" ELSE "done"
    /\ detector_saw' = [k \in scored |-> [repo |-> all_repo_results[k],
                                          at_repo_path |-> working_copies]]
    /\ working_copies' = cleanup_repo(working_copies)
    /\ temp_dir_exists' = (working_copies' # {})
    /\ UNCHANGED <<github_repos, repo_index, all_repo_results, cloned, analysed,
                   failed>>

(***************************************************************************)
(* scoring/skill_detector.py: SkillDetector                                *)
(***************************************************************************)
\* The extensions, import patterns, database patterns and package files of
\* five of the skills.  A pattern is named by the text it looks for.
FILE_EXTENSIONS ==
    [py |-> <<"Python">>, jsx |-> <<"JavaScript", "React">>, sql |-> <<"SQL">>]

IMPORT_PATTERNS ==
    ("Node.js" :> <<"require('x')", "process.env">>)
    @@ [React |-> <<"from 'react'", "import React", "import {x} from 'react'">>,
        Flask |-> <<"from flask import", "import flask">>]

PACKAGE_FILES ==
    ("Node.js" :> <<"package.json", "package-lock.json", "yarn.lock">>)
    @@ [Python |-> <<"requirements.txt", "setup.py", "Pipfile", "pyproject.toml">>]

DATABASE_PATTERNS ==
    [SQL |-> <<"SELECT ", "INSERT INTO", "CREATE TABLE", "UPDATE ">>,
     Redis |-> <<"redis", ".hset(", ".get(">>]

PackageEntry == [file |-> <<>>, pattern |-> "Package file detected"]

\* A working copy is [files |-> what is at each touched path,
\* manifests |-> the names that exist in its root].  What is at a path is
\* [kind, matches]: kind is "file", "missing", "dir" or "unreadable", and
\* matches is the set of patterns re.search finds in the file's text.
search(pattern, content) == pattern \in content.matches

\* The inner 'for pattern in patterns' loop without its break
RECURSIVE all_match_entries(_, _, _, _)
all_match_entries(file, content, patterns, i) ==
    IF i > Len(patterns) THEN <<>>
    ELSE IF search(patterns[i], content)
         THEN <<[file |-> file, pattern |-> patterns[i]]>>
              \o all_match_entries(file, content, patterns, i + 1)
         ELSE all_match_entries(file, content, patterns, i + 1)

\* The inner 'for pattern in patterns' loop from pattern i on: the entry
\* f"{file}: {pattern}" of the first pattern found, then break
RECURSIVE first_match_entries(_, _, _, _)
first_match_entries(file, content, patterns, i) ==
    IF i > Len(patterns) THEN <<>>
    ELSE IF search(patterns[i], content)
         THEN <<[file |-> file, pattern |-> patterns[i]]>>
         ELSE first_match_entries(file, content, patterns, i + 1)

\* 'continue' for a path that does not exist, is a directory or cannot be read
is_read(repo, file) == repo.files[file].kind = "file"

\* The entries one pattern group collects over the files, in list order
RECURSIVE content_entries(_, _, _, _)
content_entries(repo, files, patterns, i) ==
    IF i > Len(files) THEN <<>>
    ELSE (IF is_read(repo, files[i])
          THEN first_match_entries(files[i], repo.files[files[i]], patterns, 1)
          ELSE <<>>)
         \o content_entries(repo, files, patterns, i + 1)

detect_from_contents(repo, files) ==
    LET imports(skill) == content_entries(repo, files, IMPORT_PATTERNS[skill], 1)
        patterns(db) == content_entries(repo, files, DATABASE_PATTERNS[db], 1)
        with_imports == {skill \in DOMAIN IMPORT_PATTERNS : imports(skill) # <<>>}
        with_patterns == {db \in DOMAIN DATABASE_PATTERNS : patterns(db) # <<>>}
    IN  [skill \in with_imports \cup with_patterns |->
            [imports |-> IF skill \in with_imports THEN imports(skill) ELSE <<>>,
             patterns |-> IF skill \in with_patterns THEN patterns(skill) ELSE <<>>]]

\* Suffixes are written without the dot and in lower case
ExtensionKey(file) ==
    IF Suffix(file) = ".py" THEN "py"
    ELSE IF Suffix(file) = ".jsx" THEN "jsx"
    ELSE IF Suffix(file) = ".sql" THEN "sql" ELSE ""

detect_from_extensions(files) ==
    LET has(file, skill) ==
            /\ ExtensionKey(file) \in DOMAIN FILE_EXTENSIONS
            /\ skill \in Range(FILE_EXTENSIONS[ExtensionKey(file)])
        all_skills == UNION {Range(FILE_EXTENSIONS[e]) : e \in DOMAIN FILE_EXTENSIONS}
        found == {skill \in all_skills : \E i \in 1..Len(files) : has(files[i], skill)}
    IN  [skill \in found |->
            [files |-> SelectSeq(files, LAMBDA file : has(file, skill))]]

detect_from_packages(repo) ==
    {skill \in DOMAIN PACKAGE_FILES :
        \E i \in 1..Len(PACKAGE_FILES[skill]) :
            PACKAGE_FILES[skill][i] \in repo.manifests}

detect_all_skills(repo, files) ==
    LET ext_skills == detect_from_extensions(files)
        content_skills == detect_from_contents(repo, files)
        package_skills == detect_from_packages(repo)
    IN  [skill \in DOMAIN ext_skills \cup DOMAIN content_skills \cup package_skills |->
            [files |-> IF skill \in DOMAIN ext_skills
                       THEN ext_skills[skill].files ELSE <<>>,
             imports |-> IF skill \in DOMAIN content_skills
                         THEN content_skills[skill].imports ELSE <<>>,
             patterns |-> (IF skill \in DOMAIN content_skills
                           THEN content_skills[skill].patterns ELSE <<>>)
                          \o (IF skill \in package_skills
                              THEN <<PackageEntry>> ELSE <<>>)]]

(***************************************************************************)
(* Bounds and input samples                                                *)
(***************************************************************************)
MaxFiles == 9        \* evidence['files'] holds 0..MaxFiles entries
MaxImports == 4      \* evidence['imports'] holds 0..MaxImports entries
MaxPatterns == 4     \* evidence['patterns'] holds 0..MaxPatterns entries
MaxPctCommits == 25  \* commit counts behind a contribution percentage
MaxRepos == 3        \* repositories scored for one skill
MaxCommits == 3      \* commits in the stream analyze_repository reads

\* Working copies and touched-file lists of the evidence detector
AppJsx == <<"App", ".jsx">>
DbPy == <<"db", ".py">>
TouchedFiles == {AppJsx, DbPy}
PathSamples ==
    {[kind |-> "missing", matches |-> {}],
     [kind |-> "dir", matches |-> {}],
     [kind |-> "unreadable", matches |-> {}],
     [kind |-> "file", matches |-> {}],
     [kind |-> "file", matches |-> {"import React", "import {x} from 'react'",
                                    "SELECT ", "INSERT INTO"}],
     [kind |-> "file", matches |-> {"from 'react'", "process.env", "UPDATE "}]}
ManifestSamples == SUBSET {"package.json", "requirements.txt"}
WorkingCopySamples ==
    [files : [TouchedFiles -> PathSamples], manifests : ManifestSamples]
\* list(stats['files_changed']): a set as a list, in any order
UserFileSamples == {<<>>, <<AppJsx>>, <<DbPy>>, <<AppJsx, DbPy>>, <<DbPy, AppJsx>>}

\* Author names and emails of the commit stream
Ann == <<"A", "n", "n">>
Bo == <<"B", "o">>
CIBot == <<"C", "I", "B", "o", "t">>
PlainEmail == <<"a", "@", "x", ".", "i", "o">>
NoReplyEmail == <<"N", "o", "R", "e", "p", "l", "y", "@", "x", ".", "i", "o">>
AuthorSamples == {Ann, Bo, CIBot}
EmailSamples == {PlainEmail, NoReplyEmail}
\* (insertions, deletions) of a commit
LineSamples == {<<0, 0>>, <<30, 10>>}

\* File names as <<stem, suffix>>
MainPy == <<"main", ".py">>
AppJs == <<"app", ".js">>
Makefile == <<"Makefile", "">>

MaxSkillCommits == 2 \* commits in the stream when the commits vary in every field

\* (insertions, deletions): an empty commit, a small one, one above the
\* optimal size and one far above it
SkillLineSamples == {<<0, 0>>, <<40, 20>>, <<300, 0>>, <<2400, 50>>}
\* Commit messages as their words
MessageSamples == {<<"fix">>, <<"add", "the", "new", "parser">>}
\* committer_date in hours
DateSamples == {0, 30, 2000}
FileListSamples == {<<>>, <<MainPy>>, <<AppJs, Makefile>>}

\* Working copies: requirements.txt absent or naming Django; package.json
\* absent or with some of three dependencies; some of four files; some of
\* three code patterns
RequirementsSamples ==
    {[exists |-> FALSE, text |-> <<>>],
     [exists |-> TRUE, text |-> <<"D", "j", "a", "n", "g", "o", "=", "=", "4">>]}
PackageJsonSamples ==
    {[exists |-> FALSE, deps |-> {}]}
    \cup {[exists |-> TRUE, deps |-> deps] :
             deps \in SUBSET {<<"r", "e", "a", "c", "t">>,
                              <<"e", "x", "p", "r", "e", "s", "s">>,
                              <<"t", "a", "i", "l", "w", "i", "n", "d", "c", "s", "s">>}}
TreeFileSamples ==
    {<<"manage", ".py">>, <<"server", ".js">>, <<"tailwind.config", ".js">>,
     <<"App", ".jsx">>}
CodePatternSamples == {"import React", "from django", "require("}
\* Contributor records with an authorship of 0 (no line modified at all),
\* 50 and 100 percent, and with 1, 5, 12 and 30 commits
ContributorDataSamples ==
    {[commits |-> 1, lines_added |-> 0, lines_deleted |-> 0,
      total_lines_modified_in_repo |-> 0],
     [commits |-> 5, lines_added |-> 30, lines_deleted |-> 10,
      total_lines_modified_in_repo |-> 80],
     [commits |-> 12, lines_added |-> 30, lines_deleted |-> 10,
      total_lines_modified_in_repo |-> 80],
     [commits |-> 30, lines_added |-> 30, lines_deleted |-> 10,
      total_lines_modified_in_repo |-> 40]}
\* What an evaluator measures in the working copy: the scores of its
\* criteria 2 and 3, the number of REST patterns, the lines of code
MeasureSamples ==
    {[second |-> 0, third |-> 0, rest_count |-> 0, code_lines |-> 0],
     [second |-> 20, third |-> 12, rest_count |-> 4, code_lines |-> 2500]}

MaxRepoList == 3     \* repositories named by the resume
MaxRecordLines == 3  \* lines of a record handed to calculate_skill_score
MaxScorerCommits == 31 \* commit counts the maturity criterion is compared over

\* URLs with no path (unknown), a user (profile), a user and a repository
UrlSamples == {[parts |-> 0], [parts |-> 1], [parts |-> 2]}
RECURSIVE SeqsUpTo(_, _)
SeqsUpTo(S, n) ==
    IF n = 0 THEN {<<>>}
    ELSE LET shorter == SeqsUpTo(S, n - 1)
         IN  shorter \cup {Append(s, x) : s \in shorter, x \in S}
RepoListSamples == SeqsUpTo(UrlSamples, MaxRepoList)

\* detect_languages results: no language, one language whose files are all
\* empty, one language with lines
NoLanguages == [lang \in {} |-> 0]
LanguageSamples == {NoLanguages, [lang \in {"Python"} |-> 0],
                    [lang \in {"Python"} |-> 120]}

\* Resume candidates: "Ann Lee" (matches Ann by a name part), "bo" (matches
\* Bo without case), "Zed" (matches by user name only, or not at all)
CandidateSamples ==
    {<<"A", "n", "n", " ", "L", "e", "e">>, <<"b", "o">>, <<"Z", "e", "d">>}
UsernameSamples == {<<>>, <<"c", "i", "b", "o", "t">>}
DetectedSkillSamples == {<<>>, <<Evidence(8, 3, 1)>>}


\* Values handed to validate_score and criterion scores handed to
\* validate_skill_breakdown: below, at, inside and above the bounds.
ScoreSamples == {-1, 0, 50, 100, 101}
CriterionSamples == {-1, 0, 12, 20, 21}

\* Evidence records and (commits, total commits) pairs for the aggregation:
\* base scores 0, 5, 40, 60, 80 and percentages 0, 4, 5, 20, 30, 33.3.., 50.
EvidenceSamples ==
    {Evidence(0, 0, 0), Evidence(1, 0, 0), Evidence(8, 0, 0),
     Evidence(0, 3, 3), Evidence(8, 3, 1)}
\* Score records as aggregate_scores reads them, whatever made them
ScoreRecordSamples ==
    [tier : {"insufficient", "high"}, contribution_pct : {Rat(0, 1), Rat(10, 1)},
     final_score : {0, 40, 75}, verified : {FALSE, TRUE}]
MaxAggregated == 2   \* records in one aggregate_scores call
PctSamples ==
    {<<0, 0>>, <<1, 25>>, <<1, 20>>, <<2, 10>>, <<3, 10>>, <<1, 3>>, <<5, 10>>}

(***************************************************************************)
(* Initial state                                                           *)
(***************************************************************************)
ScorerInit ==
    /\ score_data = NoValue
    /\ repo_scores = <<>>
    /\ aggregated = NoValue

AnalyzerInit ==
    /\ an_pc = "traverse"
    /\ contributors = <<>>
    /\ contributor_order = <<>>
    /\ total_commits = 0
    /\ total_commits_excluding_bots = 0
    /\ total_lines_modified = 0
    /\ bot_count = 0
    /\ all_files = {}
    /\ file_extensions = <<>>
    /\ warnings = {}
    /\ assumptions = {}
    /\ languages = <<>>

DisplayInit ==
    /\ disp_pc = "idle"
    /\ ranked = <<>>
    /\ validation_errors = {}
    /\ bot_report = <<>>

ResumeInit ==
    /\ resume_pc = "idle"
    /\ matched_name = NoValue
    /\ repo_contribution_pct = NoValue

SkillScorerInitial ==
    /\ scorer_pc = "none"
    /\ working_copy = [requirements |-> [exists |-> FALSE, text |-> <<>>],
                       package_json |-> [exists |-> FALSE, deps |-> {}],
                       files |-> {}, code |-> {}]
    /\ frameworks = <<>>
    /\ authorship_percentage = Rat(0, 1)
    /\ skill_scores = <<>>
    /\ contributor_commits = 0

MainInit ==
    /\ main_pc = "start"
    /\ github_repos = <<>>
    /\ repo_index = 1
    /\ all_repo_results = <<>>
    /\ cloned = {}
    /\ analysed = {}
    /\ failed = {}
    /\ temp_dir_exists = FALSE
    /\ working_copies = {}
    /\ detector_saw = <<>>

ValidationInit ==
    /\ validate_pc = "idle"
    /\ raw_value = NoValue
    /\ checked_value = NoValue

Init ==
    /\ ScorerInit /\ AnalyzerInit /\ DisplayInit /\ ResumeInit
    /\ SkillScorerInitial /\ MainInit /\ ValidationInit

(***************************************************************************)
(* SpecScore: one call of score_skill on any evidence and percentage       *)
(***************************************************************************)
ScoreSkill ==
    /\ score_data = NoValue
    /\ \E files \in 0..MaxFiles, imports \in 0..MaxImports,
          patterns \in 0..MaxPatterns,
          commits \in 0..MaxPctCommits, total \in 0..MaxPctCommits :
            score_data' = score_skill("Python", Evidence(files, imports, patterns),
                                      ContributionPct(commits, total))
    /\ UNCHANGED <<repo_scores, aggregated, analyzerVars, displayVars, validationVars, resumeVars, otherVars>>

NextScore == ScoreSkill

SpecScore == Init /\ [][NextScore]_vars

(***************************************************************************)
(* SpecAggregate: display_resume_results scores one skill in each          *)
(* repository, stores the records, then aggregates them                    *)
(***************************************************************************)
\* display_resume.py lines 157-163
ScoreAndStore ==
    /\ aggregated = NoValue
    /\ Len(repo_scores) < MaxRepos
    /\ \E ev \in EvidenceSamples, p \in PctSamples :
        /\ score_data' = score_skill("Python", ev, ContributionPct(p[1], p[2]))
        /\ repo_scores' = Append(repo_scores, score_data')
    /\ UNCHANGED <<aggregated, analyzerVars, displayVars, validationVars, resumeVars, otherVars>>

\* display_resume.py lines 208-209
Aggregate ==
    /\ aggregated = NoValue
    /\ \E rounded \in RoundedAverages(repo_scores) :
        aggregated' = aggregate_scores(repo_scores, rounded)
    /\ UNCHANGED <<score_data, repo_scores, analyzerVars, displayVars, validationVars, resumeVars, otherVars>>

NextAggregate == ScoreAndStore \/ Aggregate

SpecAggregate == Init /\ [][NextAggregate]_vars

(***************************************************************************)
(* SpecAnalyze: analyze_repository reads a commit stream and returns; then *)
(* display_results and the resume report's loop body use what it returned  *)
(***************************************************************************)
\* The commits of the stream
CommitSamples ==
    {Commit(author, email, lines[1], lines[2], <<"fix">>, 0, <<MainPy>>) :
        author \in AuthorSamples, email \in EmailSamples, lines \in LineSamples}

AnalyzeCommit ==
    /\ total_commits < MaxCommits
    /\ \E commit \in CommitSamples : ProcessCommit(commit)

AnalyzeReturn == \E detected \in LanguageSamples : FinishAnalysis(detected)

DisplayResults == display_results

ResumeRepo ==
    \E candidate_name \in CandidateSamples, github_username \in UsernameSamples,
       detected_skills \in DetectedSkillSamples :
        display_resume_repo(candidate_name, github_username, detected_skills)

NextAnalyze == AnalyzeCommit \/ AnalyzeReturn \/ DisplayResults \/ ResumeRepo

SpecAnalyze == Init /\ [][NextAnalyze]_vars

(***************************************************************************)
(* SpecSkill: analyze_repository on commits that differ in size, message,  *)
(* time and files; display_results then scores the contributors            *)
(***************************************************************************)
SkillCommit ==
    /\ total_commits < MaxSkillCommits
    /\ \E author \in {Ann, CIBot}, lines \in SkillLineSamples,
          msg \in MessageSamples, committer_date \in DateSamples,
          modified_files \in FileListSamples :
            ProcessCommit(Commit(author, PlainEmail, lines[1], lines[2],
                                 msg, committer_date, modified_files))

SkillReturn == FinishAnalysis([lang \in {"Python"} |-> 120])

SkillDisplay == display_results

NextSkill == SkillCommit \/ SkillReturn \/ SkillDisplay

SpecSkill == Init /\ [][NextSkill]_vars

(***************************************************************************)
(* SpecFrameworks: a SkillScorer is built for a working copy and a         *)
(* contributor, then evaluate_all_skills runs                              *)
(***************************************************************************)
ConstructScorer ==
    \E requirements \in RequirementsSamples, package_json \in PackageJsonSamples,
       files \in SUBSET TreeFileSamples, code \in SUBSET CodePatternSamples,
       contributor_data \in ContributorDataSamples :
        SkillScorerInit([requirements |-> requirements, package_json |-> package_json,
                         files |-> files, code |-> code],
                        contributor_data)

EvaluateSkills == \E measures \in MeasureSamples : EvaluateAllSkills(measures)

NextFrameworks == ConstructScorer \/ EvaluateSkills

SpecFrameworks == Init /\ [][NextFrameworks]_vars

(***************************************************************************)
(* SpecMain: main, from the parsed resume to its exit.  The program is     *)
(* sequential and every call it makes returns or raises, so a step that    *)
(* is possible is eventually taken.                                        *)
(***************************************************************************)
MainParse ==
    /\ \E repos \in RepoListSamples : ParseResume(repos)
    /\ UNCHANGED <<scorerVars, analyzerVars, displayVars, validationVars, resumeVars, skillScorerVars>>

MainBegin ==
    /\ \E clone_ok \in BOOLEAN : BeginRepo(clone_ok)
    /\ UNCHANGED <<scorerVars, analyzerVars, displayVars, validationVars, resumeVars, skillScorerVars>>

MainAnalyse ==
    /\ \E analysis_ok \in BOOLEAN : AnalyseRepo(analysis_ok)
    /\ UNCHANGED <<scorerVars, analyzerVars, displayVars, validationVars, resumeVars, skillScorerVars>>

MainFinish ==
    /\ \E report_ok \in BOOLEAN, scored \in SUBSET (1..Len(all_repo_results)) :
        FinishMain(report_ok, scored)
    /\ UNCHANGED <<scorerVars, analyzerVars, displayVars, validationVars, resumeVars, skillScorerVars>>

NextMain == MainParse \/ MainBegin \/ MainAnalyse \/ MainFinish

SpecMain == Init /\ [][NextMain]_vars /\ WF_vars(NextMain)

(***************************************************************************)
(* SpecValidate: one call of validate_score, of validate_skill_breakdown,  *)
(* or of calculate_skill_score on a contributor record, for values inside  *)
(* and outside the bounds                                                  *)
(***************************************************************************)
\* validate_score(score, name)
ValidateScore ==
    /\ validate_pc = "idle"
    /\ \E score \in ScoreSamples :
        /\ raw_value' = [kind |-> "score", value |-> RatInt(score)]
        /\ IF validate_score(RatInt(score))
           THEN validate_pc' = "returned" /\ checked_value' = RatInt(score)
           ELSE validate_pc' = "raised" /\ checked_value' = NoValue
    /\ UNCHANGED <<scorerVars, analyzerVars, displayVars, resumeVars, otherVars>>

\* validate_skill_breakdown(breakdown)
ValidateBreakdown ==
    /\ validate_pc = "idle"
    /\ \E breakdown \in [1..5 -> CriterionSamples] :
        /\ raw_value' = [kind |-> "breakdown", value |-> breakdown]
        /\ checked_value' = NoValue
        /\ validate_pc' = IF validate_skill_breakdown(breakdown)
                          THEN "returned" ELSE "raised"
    /\ UNCHANGED <<scorerVars, analyzerVars, displayVars, resumeVars, otherVars>>

\* calculate_skill_score on a record with the given lines and repository
\* total; raw_value is the authorship formula's value,
\* (lines_added + lines_deleted) / total_lines_modified_in_repo * 100.
ValidateSubScores ==
    /\ validate_pc = "idle"
    /\ \E lines_added \in 0..MaxRecordLines, lines_deleted \in 0..MaxRecordLines,
          total \in 0..MaxRecordLines :
        LET base == [NewContributor EXCEPT !.commits = 1,
                                           !.lines_added = lines_added,
                                           !.lines_deleted = lines_deleted,
                                           !.complexity_metrics =
                                               <<lines_added + lines_deleted>>]
            contributor_data ==
                [f \in DOMAIN base \cup {"total_lines_modified_in_repo"} |->
                    IF f = "total_lines_modified_in_repo" THEN total ELSE base[f]]
            returned == calculate_skill_score(contributor_data, 1, {}, <<>>)
        IN  /\ raw_value' =
                  [kind |-> "authorship_confidence",
                   value |-> IF total = 0 THEN Rat(0, 1)
                             ELSE Rat((lines_added + lines_deleted) * 100, total)]
            /\ IF returned = {}
               THEN validate_pc' = "raised" /\ checked_value' = NoValue
               ELSE validate_pc' = "returned" /\ checked_value' \in returned
    /\ UNCHANGED <<scorerVars, analyzerVars, displayVars, resumeVars, otherVars>>

NextValidate == ValidateScore \/ ValidateBreakdown \/ ValidateSubScores

SpecValidate == Init /\ [][NextValidate]_vars

(***************************************************************************)
(* SpecFunctions: one call of calculate_authorship_percentage, of the      *)
(* contribution percentage of display_resume_results, or of                *)
(* calculate_base_score, on arguments that include the zero totals and the *)
(* empty evidence                                                          *)
(***************************************************************************)
\* calculate_authorship_percentage(author_lines_modified, total_lines_modified)
CallAuthorshipPercentage ==
    /\ validate_pc = "idle"
    /\ \E author_lines \in 0..MaxRecordLines, total \in 0..MaxRecordLines :
        /\ raw_value' = [kind |-> "authorship_percentage",
                         author_lines |-> author_lines, total |-> total]
        /\ checked_value' = calculate_authorship_percentage(author_lines, total)
    /\ validate_pc' = "returned"
    /\ UNCHANGED <<scorerVars, analyzerVars, displayVars, resumeVars, otherVars>>

\* display_resume.py line 137.  The loop body reaches the line only for a
\* contributor that is not flagged a bot; the last commit of such a
\* contributor was counted in the total, so a total of 0 comes with 0 commits.
CallContributionPct ==
    /\ validate_pc = "idle"
    /\ \E commits \in 0..MaxPctCommits, total \in 0..MaxPctCommits :
        /\ total = 0 => commits = 0
        /\ raw_value' = [kind |-> "contribution_pct",
                         commits |-> commits, total |-> total]
        /\ checked_value' = ContributionPct(commits, total)
    /\ validate_pc' = "returned"
    /\ UNCHANGED <<scorerVars, analyzerVars, displayVars, resumeVars, otherVars>>

\* calculate_base_score(evidence)
CallBaseScore ==
    /\ validate_pc = "idle"
    /\ \E files \in 0..MaxFiles, imports \in 0..MaxImports,
          patterns \in 0..MaxPatterns :
        /\ raw_value' = [kind |-> "base_score",
                         evidence |-> Evidence(files, imports, patterns)]
        /\ checked_value' = calculate_base_score(Evidence(files, imports, patterns))
    /\ validate_pc' = "returned"
    /\ UNCHANGED <<scorerVars, analyzerVars, displayVars, resumeVars, otherVars>>

\* aggregate_scores(repo_scores) on score records of any origin
CallAggregateScores ==
    /\ validate_pc = "idle"
    /\ \E n \in 0..MaxAggregated :
        \E scores \in [1..n -> ScoreRecordSamples] :
            \E rounded \in RoundedAverages(scores) :
                /\ raw_value' = [kind |-> "aggregate_scores", repo_scores |-> scores]
                /\ checked_value' = aggregate_scores(scores, rounded)
    /\ validate_pc' = "returned"
    /\ UNCHANGED <<scorerVars, analyzerVars, displayVars, resumeVars, otherVars>>

NextFunctions ==
    \/ CallAuthorshipPercentage \/ CallContributionPct \/ CallBaseScore
    \/ CallAggregateScores

SpecFunctions == Init /\ [][NextFunctions]_vars

(***************************************************************************)
(* SpecDetect: one call of SkillDetector(repo_path).detect_all_skills on a *)
(* working copy and a list of touched files                                *)
(***************************************************************************)
DetectAllSkills ==
    /\ validate_pc = "idle"
    /\ \E repo \in WorkingCopySamples, user_files \in UserFileSamples :
        /\ raw_value' = [kind |-> "detect", repo |-> repo, user_files |-> user_files]
        /\ checked_value' = detect_all_skills(repo, user_files)
    /\ validate_pc' = "detected"
    /\ UNCHANGED <<scorerVars, analyzerVars, displayVars, resumeVars, otherVars>>

NextDetect == DetectAllSkills

SpecDetect == Init /\ [][NextDetect]_vars

(***************************************************************************)
(* Claims                                                                  *)
(***************************************************************************)
\* C1: whenever score_skill is called with a contribution percentage below 5,
\* it returns tier 'insufficient' and final_score 0, whatever the numbers of
\* files, imports and patterns in the evidence.
C1_BelowFiveIsInsufficient ==
    (score_data # NoValue /\ RatLtInt(score_data.contribution_pct, 5))
        => (score_data.tier = "insufficient" /\ score_data.final_score = 0)

\* C1 witness: a positive contribution below 5% with saturated evidence
\* (base score 100) scored 0.
C1_Witness ==
    /\ score_data # NoValue
    /\ RatLtInt(score_data.contribution_pct, 5)
    /\ score_data.contribution_pct.n > 0
    /\ score_data.files_count >= 8
    /\ score_data.imports_count >= 3
    /\ score_data.patterns_count >= 3
    /\ score_data.base_score = 100
    /\ score_data.final_score = 0

\* The retained records of the list: those whose tier is not 'insufficient'.
Retained == {i \in 1..Len(repo_scores) : repo_scores[i].tier # "insufficient"}

RECURSIVE WeightOver(_)
WeightOver(S) ==
    IF S = {} THEN Rat(0, 1)
    ELSE LET i == CHOOSE x \in S : TRUE
         IN  RatAdd(repo_scores[i].contribution_pct, WeightOver(S \ {i}))

RECURSIVE ScoreWeightOver(_)
ScoreWeightOver(S) ==
    IF S = {} THEN Rat(0, 1)
    ELSE LET i == CHOOSE x \in S : TRUE
         IN  RatAdd(RatMulInt(repo_scores[i].contribution_pct,
                              repo_scores[i].final_score),
                    ScoreWeightOver(S \ {i}))

RetainedWeight == WeightOver(Retained)
RetainedScoreWeight == ScoreWeightOver(Retained)

\* |10 * A / W - r| <= 1/2, without dividing: r (in tenths) is A / W rounded
\* to one decimal.
IsRoundedQuotient(r, A, W) ==
    LET X == RatAdd(RatMulInt(A, 10), RatMulInt(W, -r))
        absn == IF X.n < 0 THEN -X.n ELSE X.n
    IN  2 * absn * W.d <= W.n * X.d

\* The spec's example: final scores 80/60/40 at contribution 50/30/20 percent.
SpecExample == << <<80, 50>>, <<60, 30>>, <<40, 20>> >>

\* Whether the retained records are exactly the given (final score, percent)
\* pairs, in order.
RetainedAre(pairs) ==
    LET v == valid_scores(repo_scores)
    IN  /\ Len(v) = Len(pairs)
        /\ \A i \in 1..Len(v) :
              /\ v[i].final_score = pairs[i][1]
              /\ RatEq(v[i].contribution_pct, Rat(pairs[i][2], 1))

\* C2: when at least one record is retained and the retained percentages
\* sum to more than zero, the aggregate's final_score is
\* sum(final_score x contribution_pct) / sum(contribution_pct) over the
\* retained records, rounded to one decimal; 80/60/40 at 50/30/20 give 66.0.
C2_WeightedAverage ==
    (aggregated # NoValue /\ Retained # {} /\ RetainedWeight.n > 0)
        => /\ IsRoundedQuotient(aggregated.final_score, RetainedScoreWeight,
                                RetainedWeight)
           /\ RetainedAre(SpecExample)
                 => aggregated.final_score = 660

\* C2 witness: the aggregation of 80/60/40 at 50/30/20 has run, gave 66.0
\* and used all three records.
C2_Witness ==
    /\ aggregated # NoValue
    /\ RetainedAre(SpecExample)
    /\ aggregated.final_score = 660
    /\ aggregated.repos_used = 3

\* Commits of the contributors whose final is_bot flag is false.
RECURSIVE CommitsOfNonBots(_)
CommitsOfNonBots(S) ==
    IF S = {} THEN 0
    ELSE LET a == CHOOSE x \in S : TRUE
         IN  (IF contributors[a].is_bot THEN 0 ELSE contributors[a].commits)
             + CommitsOfNonBots(S \ {a})

\* C3: the total commit count analyze_repository returns equals the sum of
\* the commit counts of the contributors whose is_bot flag is false.
C3_TotalExcludesBots ==
    an_pc = "returned"
        => total_commits_excluding_bots = CommitsOfNonBots(DOMAIN contributors)

\* C4: no contributor flagged is_bot is in the ranked list; once
\* display_results has printed its report, every contributor flagged is_bot
\* has exactly one entry in the automated-contributors section, with the
\* commits, lines added and lines deleted the aggregation accumulated.
C4_BotsReportedNotRanked ==
    /\ \A i \in 1..Len(ranked) : ~ contributors[ranked[i].author].is_bot
    /\ disp_pc = "displayed" =>
          /\ \A a \in DOMAIN contributors :
                contributors[a].is_bot =>
                    /\ Cardinality({i \in 1..Len(bot_report) :
                                      bot_report[i].name = a}) = 1
                    /\ \A i \in 1..Len(bot_report) :
                          bot_report[i].name = a =>
                              /\ bot_report[i].commits = contributors[a].commits
                              /\ bot_report[i].lines_added = contributors[a].lines_added
                              /\ bot_report[i].lines_deleted
                                    = contributors[a].lines_deleted
          /\ \A i \in 1..Len(bot_report) :
                /\ bot_report[i].name \in DOMAIN contributors
                /\ contributors[bot_report[i].name].is_bot

\* C4 witness: a report with one ranked human and one bot that is flagged
\* only by its email, with two commits, sixty added and twenty deleted lines.
C4_Witness ==
    /\ disp_pc = "displayed"
    /\ Len(ranked) = 1
    /\ ranked[1].author = Ann
    /\ Len(bot_report) = 1
    /\ bot_report[1] = [name |-> Bo, commits |-> 2, lines_added |-> 60,
                        lines_deleted |-> 20]

\* Whether a returned score record is within bounds and satisfies the
\* weighted formula within rounding (all values in hundredths).
WithinRounding(r) ==
    LET weighted == 35 * r.code_quality + 25 * r.authorship_confidence
                    + 20 * r.commit_maturity + 10 * r.project_complexity
        diff == 100 * r.skill_score - weighted
    IN  /\ \A f \in {"skill_score", "code_quality", "authorship_confidence",
                     "commit_maturity", "project_complexity"} :
              r[f] >= 0 /\ r[f] <= 10000
        /\ diff < 100 /\ diff > -100

\* C5: for every contributor record the commit aggregation produced,
\* calculate_skill_score returns (it does not raise), the four sub-scores and
\* the skill score are in [0, 100], and the skill score is
\* 0.35 code_quality + 0.25 authorship_confidence + 0.20 commit_maturity
\* + 0.10 project_complexity to within rounding to two decimals.
C5_SkillScoreFormula ==
    /\ an_pc = "returned" =>
          \A a \in DOMAIN contributors :
              /\ ScoresOf(a) # {}
              /\ \A r \in ScoresOf(a) : WithinRounding(r)
    /\ \A i \in 1..Len(ranked) : WithinRounding(ranked[i].scores)
    /\ validation_errors = {}

\* C5 witness: display_results has scored a contributor with two commits a
\* day apart: commit maturity and authorship confidence are 100, code
\* quality and project complexity lie strictly between 0 and 100, and so
\* does the skill score.
C5_Witness ==
    /\ disp_pc = "displayed"
    /\ \E i \in 1..Len(ranked) :
          LET r == ranked[i].scores
          IN  /\ contributors[ranked[i].author].commits = 2
              /\ r.commit_maturity = 10000
              /\ r.code_quality > 0 /\ r.code_quality < 10000
              /\ r.authorship_confidence = 10000
              /\ r.project_complexity > 0 /\ r.project_complexity < 10000
              /\ r.skill_score > 0 /\ r.skill_score < 10000

\* C6: the contribution percentage handed to the contribution-capped
\* per-repository scoring, the authorship confidence of the overall skill
\* score and the authorship percentage of the per-technology breakdowns are
\* one value: the contributor's share of the lines modified.
C6_SamePercentageEverywhere ==
    resume_pc = "scored" =>
        /\ RatEq(repo_contribution_pct,
                 calculate_authorship_confidence(contributors[matched_name],
                                                 total_commits_excluding_bots))
        /\ RatEq(SkillScorer_authorship_percentage(contributors[matched_name]),
                 calculate_authorship_confidence(contributors[matched_name],
                                                 total_commits_excluding_bots))

\* C7: when all the commits of the repository come from one contributor,
\* calculate_authorship_confidence and SkillScorer both give that
\* contributor exactly 100.
C7_SingleContributorFull ==
    (an_pc = "returned" /\ Cardinality(DOMAIN contributors) = 1) =>
        \A a \in DOMAIN contributors :
            /\ RatEq(calculate_authorship_confidence(contributors[a],
                         total_commits_excluding_bots), RatInt(100))
            /\ RatEq(SkillScorer_authorship_percentage(contributors[a]), RatInt(100))

\* C8: for an empty commit stream analyze_repository returns an empty
\* contributor mapping and a total of 0, and its warnings include the
\* small-repository warning, which states the commit count 0.
C8_EmptyStream ==
    (an_pc = "returned" /\ total_commits = 0) =>
        /\ DOMAIN contributors = {}
        /\ contributor_order = <<>>
        /\ total_commits_excluding_bots = 0
        /\ [kind |-> "Small repository", count |-> 0] \in warnings

\* C8 witness: the analysis of an empty stream has returned, with the
\* small-repository warning as its only warning and no assumption.
C8_Witness ==
    /\ an_pc = "returned"
    /\ total_commits = 0
    /\ all_files = {}
    /\ warnings = {[kind |-> "Small repository", count |-> 0]}
    /\ assumptions = {}

\* C9: every framework the evaluator recognises whose detection confidence
\* is above 0 and below 60 has an entry in what evaluate_all_skills returns,
\* with total_score 0 and a reason that states the confidence and the
\* threshold 60.
C9_LowConfidenceReported ==
    scorer_pc = "evaluated" =>
        \A fw \in DOMAIN CRITERIA :
            LET confidence == Min(framework_score(working_copy, fw), 100)
            IN  (confidence > 0 /\ confidence < 60) =>
                    /\ fw \in DOMAIN skill_scores
                    /\ skill_scores[fw].total_score = 0
                    /\ LET reason == skill_scores[fw].breakdown[1].reason
                       IN  /\ "confidence" \in DOMAIN reason
                           /\ reason.confidence = confidence
                           /\ reason.threshold = 60

\* The repositories of the list that are not skipped as profile URLs.
Cloneable ==
    {j \in 1..Len(github_repos) :
        classify_github_url(github_repos[j]) # "profile"}

\* Repository j has been handled: cloned, and analysed or failed.
Handled(j) == j \in cloned /\ (j \in analysed \/ j \in failed)

\* What holds in every state: a failed repository has no result record, the
\* records are those of the analysed repositories in list order, and main
\* leaves the loop only after every cloneable repository was handled.
FailureIsolated ==
    /\ \A k \in 1..Len(all_repo_results) :
          all_repo_results[k] \in analysed \ failed
    /\ \A j \in analysed : \E k \in 1..Len(all_repo_results) : all_repo_results[k] = j
    /\ \A k \in 1..(Len(all_repo_results) - 1) :
          all_repo_results[k] < all_repo_results[k + 1]
    /\ (main_pc \in {"done", "exit_1"} /\ github_repos # <<>>) =>
          \A j \in Cloneable : Handled(j)

\* C10: a failure while cloning or analysing one repository leaves no result
\* record for it and does not end the loop: every later repository of the
\* list that is not a profile URL is eventually cloned, and analysed unless
\* its own clone or analysis fails.
C10_FailureDoesNotAbort ==
    /\ []FailureIsolated
    /\ \A i \in 1..MaxRepoList :
          [](i \in failed =>
                <>(\A j \in Cloneable : j > i => Handled(j)))

\* C10 witness: of three repositories the first failed, the second and the
\* third were analysed and are the two result records, and main completed.
C10_Witness ==
    /\ main_pc = "done"
    /\ Len(github_repos) = 3
    /\ failed = {1}
    /\ cloned = {1, 2, 3}
    /\ all_repo_results = <<2, 3>>

\* C11: every entry of skill_scores that an evaluator returned (the
\* framework was detected with a confidence of at least 60, so
\* evaluate_all_skills called its evaluator) has a breakdown of exactly five
\* criterion records, each with a score in 0..20, and a total_score that is
\* the sum of the five scores and lies in 0..100.
C11_FiveCriteria ==
    scorer_pc = "evaluated" =>
        \A fw \in evaluated_frameworks(frameworks) :
            LET result == skill_scores[fw]
            IN  /\ Len(result.breakdown) = 5
                /\ \A i \in 1..Len(result.breakdown) :
                      result.breakdown[i].score \in 0..20
                /\ result.total_score =
                      SeqSum([i \in 1..Len(result.breakdown) |->
                                 result.breakdown[i].score])
                /\ result.total_score \in 0..100

\* C12: for a contribution percentage of at least 30 and below 70,
\* score_skill applies the medium cap (tier 'medium', final score
\* min(base, 60)); the tier 'high', with final score min(base, 100), is
\* returned for the percentages of at least 70 and for no other.
C12_MediumCapBelowSeventy ==
    score_data # NoValue =>
        LET pct == score_data.contribution_pct
        IN  /\ (RatGeInt(pct, 30) /\ RatLtInt(pct, 70)) =>
                  /\ score_data.tier = "medium"
                  /\ score_data.final_score = Min(score_data.base_score, 60)
            /\ RatGeInt(pct, 70) =>
                  /\ score_data.tier = "high"
                  /\ score_data.final_score = Min(score_data.base_score, 100)
            /\ score_data.tier = "high" => RatGeInt(pct, 70)

\* C13: for a contribution percentage of at least 5 and below 10 score_skill
\* returns tier 'low' and final score min(base, 40); for a percentage of at
\* least 10 and below 30 it returns tier 'medium' and final score
\* min(base, 60); and for every percentage the final score exceeds neither
\* the base score nor the cap of the returned tier.
C13_LowAndMediumCaps ==
    score_data # NoValue =>
        LET pct == score_data.contribution_pct
        IN  /\ (RatGeInt(pct, 5) /\ RatLtInt(pct, 10)) =>
                  /\ score_data.tier = "low"
                  /\ score_data.final_score = Min(score_data.base_score, 40)
            /\ (RatGeInt(pct, 10) /\ RatLtInt(pct, 30)) =>
                  /\ score_data.tier = "medium"
                  /\ score_data.final_score = Min(score_data.base_score, 60)
            /\ score_data.final_score <= score_data.base_score
            /\ score_data.final_score <= CAPS[score_data.tier]

\* C13 witness: saturated evidence (base score 100) at a contribution of at
\* least 5% and below 10% was capped to 40 in tier 'low'.
C13_Witness ==
    /\ score_data # NoValue
    /\ RatGeInt(score_data.contribution_pct, 5)
    /\ RatLtInt(score_data.contribution_pct, 10)
    /\ score_data.base_score = 100
    /\ score_data.tier = "low"
    /\ score_data.final_score = 40
    /\ score_data.reason = "Capped due to contribution"

\* C14: score_skill marks a skill verified exactly when at least one of the
\* files, imports and patterns lists of the evidence is non-empty, whatever
\* the contribution percentage, the tier and the final score are; a skill
\* with evidence and a contribution below 5% is verified with final score 0.
C14_VerifiedIffEvidence ==
    score_data # NoValue =>
        /\ score_data.verified <=>
              (score_data.evidence.files > 0 \/ score_data.evidence.imports > 0
                  \/ score_data.evidence.patterns > 0)
        /\ (RatLtInt(score_data.contribution_pct, 5)
              /\ score_data.evidence.files + score_data.evidence.imports
                    + score_data.evidence.patterns > 0) =>
                 (score_data.verified /\ score_data.final_score = 0)

\* C14 witness: one pattern match as the only evidence, at a contribution
\* below 5%: verified, tier 'insufficient', final score 0.
C14_Witness ==
    /\ score_data # NoValue
    /\ score_data.evidence = Evidence(0, 0, 1)
    /\ RatLtInt(score_data.contribution_pct, 5)
    /\ score_data.tier = "insufficient"
    /\ score_data.verified
    /\ score_data.final_score = 0

\* Whether d is the list of the retained records of repo_scores, in their
\* order: the records at the indices of Retained and no other.
IsRetainedList(d) ==
    /\ Len(d) = Cardinality(Retained)
    /\ \E f \in [1..Len(d) -> Retained] :
          /\ \A k \in 1..(Len(d) - 1) : f[k] < f[k + 1]
          /\ \A k \in 1..Len(d) : d[k] = repo_scores[f[k]]

C15_AllInsufficient ==
    /\ aggregated # NoValue
    /\ Len(repo_scores) = 2
    /\ Retained = {}
    /\ aggregated.reason = "Insufficient contribution in all repositories"

\* C16: every record aggregate_scores returns, the results for an empty
\* input list and for a list of 'insufficient' records included, has the
\* fields final_score, verified, repos_used, repos_insufficient and
\* repo_details.
C16_AggregateFields ==
    aggregated # NoValue =>
        {"final_score", "verified", "repos_used", "repos_insufficient",
         "repo_details"} \subseteq DOMAIN aggregated

\* Lines added plus lines deleted of the contributors in S, summed.
RECURSIVE LinesOf(_)
LinesOf(S) ==
    IF S = {} THEN 0
    ELSE LET a == CHOOSE x \in S : TRUE
         IN  contributors[a].lines_added + contributors[a].lines_deleted
             + LinesOf(S \ {a})

\* C17: when analyze_repository has returned, every contributor record
\* holds the same value in total_lines_modified_in_repo, that value is the
\* repository-wide total of lines modified (the lines added and deleted of
\* all contributors together), and each contributor's lines_added +
\* lines_deleted is at most that value.
C17_SameTotalOnEveryRecord ==
    an_pc = "returned" =>
        \A a \in DOMAIN contributors :
            /\ \A b \in DOMAIN contributors :
                  contributors[a].total_lines_modified_in_repo
                     = contributors[b].total_lines_modified_in_repo
            /\ contributors[a].total_lines_modified_in_repo
                  = LinesOf(DOMAIN contributors)
            /\ contributors[a].lines_added + contributors[a].lines_deleted
                  <= contributors[a].total_lines_modified_in_repo

\* C17 witness: Ann with two commits of 40 lines each and Bo with one, the
\* total 120 stored on both records.
C17_Witness ==
    /\ an_pc = "returned"
    /\ DOMAIN contributors = {Ann, Bo}
    /\ contributors[Ann].lines_added + contributors[Ann].lines_deleted = 80
    /\ contributors[Bo].lines_added + contributors[Bo].lines_deleted = 40
    /\ contributors[Ann].total_lines_modified_in_repo = 120
    /\ contributors[Bo].total_lines_modified_in_repo = 120

\* Whether the value a validating call was about lies outside its bound:
\* [0,100] for a score or sub-score, [0,20] for each criterion.
OutOfBounds ==
    IF raw_value.kind = "breakdown"
    THEN \E i \in 1..Len(raw_value.value) : raw_value.value[i] \notin 0..20
    ELSE RatLtInt(raw_value.value, 0) \/ RatLt(RatInt(100), raw_value.value)

C19_ZeroCommits ==
    /\ validate_pc = "returned"
    /\ raw_value = [kind |-> "contribution_pct", commits |-> 0, total |-> 0]
    /\ checked_value.n = 0

C19_EmptyEvidence ==
    /\ validate_pc = "returned"
    /\ raw_value = [kind |-> "base_score", evidence |-> Evidence(0, 0, 0)]
    /\ checked_value = 0

\* C20: calculate_base_score returns min(40, 5 x files) + min(30, 10 x
\* imports) + min(30, 10 x patterns) for the numbers of files, imports and
\* patterns of the evidence; the result is in 0..100, is not smaller than
\* the result for evidence with fewer files, imports or patterns, and is 100
\* exactly when there are at least 8 files, 3 imports and 3 patterns.
C20_BaseScoreFormula ==
    (validate_pc = "returned" /\ raw_value.kind = "base_score") =>
        LET e == raw_value.evidence
        IN  /\ checked_value = Min(40, 5 * e.files) + Min(30, 10 * e.imports)
                                  + Min(30, 10 * e.patterns)
            /\ checked_value \in 0..100
            /\ \A files \in 0..e.files, imports \in 0..e.imports,
                  patterns \in 0..e.patterns :
                  calculate_base_score(Evidence(files, imports, patterns))
                      <= checked_value
            /\ checked_value = 100 <=>
                  (e.files >= 8 /\ e.imports >= 3 /\ e.patterns >= 3)

\* C20 witness: evidence of exactly 8 files, 3 imports and 3 patterns was
\* scored 100.
C20_Witness ==
    /\ validate_pc = "returned"
    /\ raw_value = [kind |-> "base_score", evidence |-> Evidence(8, 3, 3)]
    /\ checked_value = 100

\* The technologies whose evaluator evaluate_all_skills called
EvaluatedSkills ==
    evaluated_frameworks(frameworks) \cup evaluated_languages(working_copy)

\* C21: for every technology whose evaluator ran, if the presence criterion
\* (the first record of the breakdown) scored 0, then total_score is 0, the
\* breakdown holds no later criterion, and its one record has a reason that
\* explains the zero (the technology was not detected, or the number of its
\* files).
C21_PresenceZeroStops ==
    scorer_pc = "evaluated" =>
        \A skill \in EvaluatedSkills :
            /\ skill \in DOMAIN skill_scores
            /\ Len(skill_scores[skill].breakdown) >= 1
            /\ skill_scores[skill].breakdown[1].score = 0 =>
                  /\ skill_scores[skill].total_score = 0
                  /\ Len(skill_scores[skill].breakdown) = 1
                  /\ skill_scores[skill].breakdown[1].reason.text
                        \in {"not detected", "files"}

\* C21 witness: a working copy with two JavaScript files and a Django
\* detected at the confidence 60 without a dependency: both evaluators ran
\* and both stopped after the presence criterion.
C21_Witness ==
    /\ scorer_pc = "evaluated"
    /\ file_count(working_copy, "JavaScript") = 2
    /\ skill_scores["JavaScript"].breakdown
          = <<[criterion |-> "js_presence", score |-> 0,
               reason |-> [text |-> "files", file_count |-> 2]]>>
    /\ "Django" \in evaluated_frameworks(frameworks)
    /\ frameworks["Django"].signals.dependencies_found = {}
    /\ Len(skill_scores["Django"].breakdown) = 1
    /\ skill_scores["Django"].total_score = 0

\* The score of the fourth criterion that the evaluator of a fully evaluated
\* skill gives for the working copy and authorship of the state, with the
\* given measures and commit count
FourthScore(skill, measures, commits) ==
    IF skill \in DOMAIN CRITERIA
    THEN evaluate_framework(skill, frameworks, measures, commits,
                            authorship_percentage).breakdown[4].score
    ELSE evaluate_language(skill, file_count(working_copy, skill), measures,
                           commits, authorship_percentage).breakdown[4].score

\* C22: in every full breakdown (five records) the fourth criterion is the
\* commit-history maturity: its score is 0, 6, 12 or 20, it is the same
\* whatever else the evaluator measures in the working copy (it is
\* determined by the contributor's commit count only), and it does not
\* decrease when the commit count grows.
C22_FourthIsCommitMaturity ==
    scorer_pc = "evaluated" =>
        \A skill \in DOMAIN skill_scores :
            Len(skill_scores[skill].breakdown) = 5 =>
                /\ skill_scores[skill].breakdown[4].score \in {0, 6, 12, 20}
                /\ \A measures \in MeasureSamples :
                      FourthScore(skill, measures, contributor_commits)
                         = skill_scores[skill].breakdown[4].score
                /\ \A measures \in MeasureSamples :
                      \A c1 \in 0..MaxScorerCommits, c2 \in 0..MaxScorerCommits :
                          c1 <= c2 => FourthScore(skill, measures, c1)
                                         <= FourthScore(skill, measures, c2)

\* The three signals of a framework in the working copy of the state, and
\* whether the tree holds a file with one of the extensions that the
\* framework's 'files' list names
DependencyHit(fw) == framework_signals(working_copy, fw).dependencies_found # {}
MarkerFileHit(fw) == framework_signals(working_copy, fw).files_found # {}
SourcePatternHit(fw) == framework_signals(working_copy, fw).patterns_found # {}
ExtensionPresent(fw) ==
    \E ext \in FRAMEWORK_PATTERNS[fw].files :
        /\ IsExtension(ext)
        /\ \E file \in working_copy.files : file[2] = ext[2]

SignalSum(fw) ==
    (IF DependencyHit(fw) THEN 40 ELSE 0) + (IF MarkerFileHit(fw) THEN 30 ELSE 0)
        + (IF SourcePatternHit(fw) THEN 30 ELSE 0)

\* What detect_frameworks returned, given each framework's sum of points
ReportsBySum(sum) ==
    \A fw \in DOMAIN FRAMEWORK_PATTERNS :
        /\ fw \in DOMAIN frameworks <=> sum[fw] >= 50
        /\ fw \in DOMAIN frameworks => frameworks[fw].confidence = Min(sum[fw], 100)

\* C23 as stated: the confidence is 40 for a dependency hit plus 30 for a
\* marker-file hit plus 30 for a source-pattern hit, plus 10 only when both
\* a marker file and a file with its extension are present, capped at 100,
\* and exactly the frameworks with a sum of at least 50 are reported.
C23_BonusNeedsMarkerFile ==
    scorer_pc # "none" =>
        ReportsBySum([fw \in DOMAIN FRAMEWORK_PATTERNS |->
                         SignalSum(fw)
                         + (IF MarkerFileHit(fw) /\ ExtensionPresent(fw)
                            THEN 10 ELSE 0)])

\* C23, amended: the 10 points are added when at least one of the three
\* signals hit and the tree holds a file with one of the extensions named
\* in the framework's 'files' list; a marker-file hit is not needed.
C23_BonusNeedsAnySignal ==
    scorer_pc # "none" =>
        ReportsBySum([fw \in DOMAIN FRAMEWORK_PATTERNS |->
                         SignalSum(fw)
                         + (IF SignalSum(fw) > 0 /\ ExtensionPresent(fw)
                            THEN 10 ELSE 0)])

\* C23 witness: React is named in package.json, the tree holds a .jsx file
\* and no React code pattern: 40 + 10 = 50, and React is reported.
C23_Witness ==
    /\ scorer_pc # "none"
    /\ DependencyHit("React")
    /\ ~ MarkerFileHit("React")
    /\ ~ SourcePatternHit("React")
    /\ ExtensionPresent("React")
    /\ "React" \in DOMAIN frameworks
    /\ frameworks["React"].confidence = 50

\* The touched files that exist and are readable, and the entries of a list
\* that one file contributed
ReadFiles ==
    {i \in 1..Len(raw_value.user_files) :
        is_read(raw_value.repo, raw_value.user_files[i])}
EntriesOf(entries, file) == SelectSeq(entries, LAMBDA e : e.file = file)
ContentPatternEntries(entries) == SelectSeq(entries, LAMBDA e : e # PackageEntry)
FirstFound(patterns, content) ==
    patterns[CHOOSE i \in 1..Len(patterns) :
                /\ search(patterns[i], content)
                /\ \A j \in 1..(i - 1) : ~search(patterns[j], content)]

\* C24: in the evidence detect_all_skills returns, every skill has at most one
\* import entry and at most one content-pattern entry per touched file, that
\* entry names the first pattern of the skill's group found in the file, and
\* so neither list has more entries than there are touched files that exist
\* and can be read.  (The 'Package file detected' entry that a root manifest
\* adds to 'patterns' is not a content-pattern entry.)
C24_OneEntryPerFileAndGroup ==
    validate_pc = "detected" =>
        \A skill \in DOMAIN checked_value :
            LET imports == checked_value[skill].imports
                patterns == ContentPatternEntries(checked_value[skill].patterns)
                files == raw_value.user_files
                repo == raw_value.repo
            IN  /\ Len(imports) <= Cardinality(ReadFiles)
                /\ Len(patterns) <= Cardinality(ReadFiles)
                /\ \A i \in 1..Len(files) :
                    /\ Len(EntriesOf(imports, files[i])) <= 1
                    /\ Len(EntriesOf(patterns, files[i])) <= 1
                /\ \A i \in 1..Len(imports) :
                    /\ is_read(repo, imports[i].file)
                    /\ imports[i].pattern =
                         FirstFound(IMPORT_PATTERNS[skill], repo.files[imports[i].file])
                /\ \A i \in 1..Len(patterns) :
                    /\ is_read(repo, patterns[i].file)
                    /\ patterns[i].pattern =
                         FirstFound(DATABASE_PATTERNS[skill], repo.files[patterns[i].file])

\* A file in which two React patterns and two SQL patterns are found gave one
\* entry to each list, next to a touched path that no longer exists.
C24_Witness ==
    /\ validate_pc = "detected"
    /\ raw_value.user_files = <<AppJsx, DbPy>>
    /\ raw_value.repo.files[AppJsx].matches =
         {"import React", "import {x} from 'react'", "SELECT ", "INSERT INTO"}
    /\ raw_value.repo.files[DbPy].kind = "missing"
    /\ "React" \in DOMAIN checked_value
    /\ checked_value["React"].imports = <<[file |-> AppJsx, pattern |-> "import React"]>>
    /\ checked_value["SQL"].patterns = <<[file |-> AppJsx, pattern |-> "SELECT "]>>

\* C25: when the records aggregate_scores retains (tier not 'insufficient')
\* have contribution percentages that sum to zero, it returns as final_score
\* and weighted_avg the arithmetic mean of their final scores rounded to one
\* decimal (here in tenths), a well-defined number: the retained list is not
\* empty, so the mean's divisor is positive.
C25_ZeroWeightGivesPlainMean ==
    (validate_pc = "returned" /\ raw_value.kind = "aggregate_scores") =>
        LET retained == valid_scores(raw_value.repo_scores)
        IN  (retained # <<>> /\ TotalWeight(retained).n = 0) =>
                /\ Len(retained) > 0
                /\ weighted_avg(retained).d > 0
                /\ checked_value.final_score
                      \in RoundScaled(Rat(SumFinal(retained), Len(retained)), 10)
                /\ checked_value.weighted_avg = checked_value.final_score
                /\ checked_value.repos_used = Len(retained)

\* Two retained records at 0 percent with final scores 40 and 75, next to
\* none or any discarded one, gave 57.5.
C25_Witness ==
    /\ validate_pc = "returned"
    /\ raw_value.kind = "aggregate_scores"
    /\ Len(raw_value.repo_scores) = 2
    /\ \A i \in 1..2 : /\ raw_value.repo_scores[i].tier = "high"
                       /\ raw_value.repo_scores[i].contribution_pct = Rat(0, 1)
    /\ raw_value.repo_scores[1].final_score = 40
    /\ raw_value.repo_scores[2].final_score = 75
    /\ checked_value.final_score = 575

\* C26: whenever the report runs the evidence detector for a result record,
\* the directory at the record's repo_path exists and holds the working copy
\* of that record's repository and of no other.
C26_WorkingCopyPresentAtDetection ==
    \A k \in DOMAIN detector_saw :
        detector_saw[k].at_repo_path = {detector_saw[k].repo}

\* C30: temp_repo never holds the working copies of two repositories, and
\* once main has ended after entering the repository loop (completion, or
\* exit 1 after no analysable repository or a raising report; a failed
\* repository only ends its own iteration) the directory is gone.
C30_TempDirRemovedAtExit ==
    /\ Cardinality(working_copies) <= 1
    /\ temp_dir_exists <=> working_copies # {}
    /\ (main_pc \in {"done", "exit_1"} /\ github_repos # <<>>) =>
          (working_copies = {} /\ ~ temp_dir_exists)
    /\ (main_pc = "loop" /\ failed # {}) => working_copies = {}

\* main ended normally after a run in which one repository failed and a later
\* one was cloned, analysed and reported.
C30_Witness ==
    /\ main_pc = "done"
    /\ failed # {}
    /\ \E j \in analysed : \E i \in failed : i < j
    /\ working_copies = {}

\* During the analysis of a repository its working copy is in temp_repo.
C30_WorkingCopyDuringAnalysis ==
    /\ main_pc = "analysing"
    /\ repo_index > 1
    /\ working_copies = {repo_index}

\* C27: the contribution percentage display_resume_results computes for a
\* matched contributor that is not flagged a bot, and hands to score_skill, is
\* between 0 and 100.
C27_PercentageWithinBounds ==
    resume_pc = "scored" =>
        /\ RatGeInt(repo_contribution_pct, 0)
        /\ RatLe(repo_contribution_pct, Rat(100, 1))

\* What the claim compares of a result of analyze_repository, with and
\* without the bot flags
Counts(contribs, total) ==
    [total |-> total,
     per_author |-> [a \in DOMAIN contribs |->
                        [commits |-> contribs[a].commits,
                         lines_added |-> contribs[a].lines_added,
                         lines_deleted |-> contribs[a].lines_deleted,
                         files_changed |-> contribs[a].files_changed]]]
Flags(contribs) == [a \in DOMAIN contribs |-> contribs[a].is_bot]
\* The mapping and the bot-excluded total after a stream of two commits
AfterBoth(c1, c2) ==
    [contributors |-> contributors_after(contributors_after(<<>>, c1), c2),
     total |-> excluding_bots_after(excluding_bots_after(0, c1), c2)]
\* The two-commit streams that lead to the current state
ProcessedPairs ==
    {p \in CommitSamples \X CommitSamples :
        /\ AfterBoth(p[1], p[2]).contributors = contributors
        /\ AfterBoth(p[1], p[2]).total = total_commits_excluding_bots}

\* C28: what analyze_repository returns does not depend on the order of the
\* commits: after a stream of two commits, every contributor's commit count,
\* lines added, lines deleted, touched files and is_bot flag, and the
\* bot-excluded total, are those the same two commits give in the other order.
C28_OrderIndependent ==
    (an_pc = "traverse" /\ total_commits = 2) =>
        \A p \in ProcessedPairs :
            LET other == AfterBoth(p[2], p[1])
            IN  /\ Counts(contributors, total_commits_excluding_bots)
                     = Counts(other.contributors, other.total)
                /\ Flags(contributors) = Flags(other.contributors)

\* The same without the is_bot flags
C28_CountsOrderIndependent ==
    (an_pc = "traverse" /\ total_commits = 2) =>
        /\ ProcessedPairs # {}
        /\ \A p \in ProcessedPairs :
            LET other == AfterBoth(p[2], p[1])
            IN  Counts(contributors, total_commits_excluding_bots)
                   = Counts(other.contributors, other.total)

\* C29: whenever the mapping analyze_repository builds holds a contributor
\* that is not flagged a bot (one display_results ranks), the bot-excluded
\* total is at least 1, and display_results never fails on the division by it
\* in _display_contributor_details.
C29_RankedImpliesPositiveTotal ==
    /\ (\E a \in DOMAIN contributors : ~ contributors[a].is_bot) =>
           total_commits_excluding_bots >= 1
    /\ disp_pc = "raised" => (DOMAIN languages # {} /\ SumValues(languages) = 0)
    /\ disp_pc = "displayed" =>
           \A i \in 1..Len(ranked) :
               /\ ~ contributors[ranked[i].author].is_bot
               /\ total_commits_excluding_bots >= 1

\* display_results ranked a contributor whose earlier commit counted as a
\* bot's, in a repository whose only counted commit is that contributor's last.
C29_Witness ==
    /\ disp_pc = "displayed"
    /\ Len(ranked) = 1
    /\ contributors[ranked[1].author].commits = 2
    /\ total_commits_excluding_bots = 1
    /\ bot_count = 1

=============================================================================
